---------------------------- MODULE Spec2Model ----------------------------
(***************************************************************************)
(* Model of the audio core of beepink-naural: PinkNoiseGenerator,          *)
(* BinauralBeatGenerator and the mode/mix policy effect of App.            *)
(*                                                                         *)
(* Numbers are fixed point with One standing for 1.0: a volume of 0.3 is   *)
(* 30, a depth of 0.8 is 80, 60 Hz is 6000.  The input sets below hold     *)
(* only values on which the products and halvings of the code are exact    *)
(* (volumes are multiples of 10, depths are even).                         *)
(*                                                                         *)
(* An AudioParam is a record [value, target]: `value' is what the render   *)
(* thread currently produces, `target' the value the last scheduled        *)
(* setTargetAtTime ramp (or direct assignment) approaches.                 *)
(***************************************************************************)
EXTENDS Integers, Sequences, FiniteSets, TLC

VARIABLES
    noise,          \* the PinkNoiseGenerator object (constructed state when App has none yet)
    beat,           \* the BinauralBeatGenerator object
    ui,             \* App's React state (useState cells)
    created,        \* audioContextRef / noiseGenRef / beatGenRef are non-null
    storage,        \* localStorage: preset slots
    lastCall,       \* the last call made directly on a generator's interface, with its arguments
    host            \* module state of the platform helpers and the event loop that runs them

vars == <<noise, beat, ui, created, storage, lastCall, host>>

---------------------------------------------------------------------------
(* Bounds and input sets *)

\* how many times a generator may create its sound-producing nodes
MaxStarts == 2

One == 100

\* the platform helpers are not loaded
NoHost == [module |-> "none"]

Undef == <<>>
Opt(S) == {Undef} \cup {<<v>> : v \in S}
Given(a) == a # Undef
Val(a) == a[1]

\* arguments tried on the generators' own interface
DepthArgs == {-20, 80, 150}
PanDepthArgs == {-20, 150}
FreqArgs == {50, 400}
VolumeArgs == {0, 50}
BaseArgs == {6000, 20000}
BeatArgs == {-300, 0, 400}

Max(a, b) == IF a >= b THEN a ELSE b
Min(a, b) == IF a <= b THEN a ELSE b

---------------------------------------------------------------------------
(* AudioParam *)

Param(v) == [value |-> v, target |-> v]

\* (mutant) the ramp is scheduled relative to the pending target
SetTargetAtTimeRelative(p, t) == [p EXCEPT !.target = @ + t]

\* param.setTargetAtTime(t, currentTime, 0.1)
SetTargetAtTime(p, t) == [p EXCEPT !.target = t]

\* the render thread has run long past the time constant
Settled(p) == [p EXCEPT !.value = p.target]

NoParam == Param(0)

---------------------------------------------------------------------------
(* PinkNoiseGenerator *)

\* field initialisers and constructor; createGain() yields a gain of 1
NoiseConstruct ==
    [ node |-> 0, pulseOsc |-> 0, panOsc |-> 0,
      nodeStarted |-> FALSE, pulseOscStarted |-> FALSE, panOscStarted |-> FALSE,
      modulationFreq |-> 4 * One, pulseDepth |-> 0, panDepth |-> 0,
      gain |-> Param(0),
      pulseGain |-> Param(One),
      pan |-> Param(0),
      pulseDepthGain |-> Param(One),
      panDepthGain |-> Param(One),
      pulseOscFreq |-> NoParam, panOscFreq |-> NoParam,
      dests |-> {},
      made |-> 0 ]

\* (mutant) a later connect() takes the output away from the earlier endpoint
NoiseConnectReplaces(n, destination) == [n EXCEPT !.dests = {destination}]

NoiseConnect(n, destination) == [n EXCEPT !.dests = @ \cup {destination}]

\* (mutant) a call made while a ramp is in flight is dropped
NoiseSetVolumeWhenIdle(n, volume) ==
    IF n.gain.value # n.gain.target THEN n
    ELSE [n EXCEPT !.gain = [value |-> @.value, target |-> volume]]

NoiseSetVolume(n, volume) == [n EXCEPT !.gain = SetTargetAtTime(@, volume)]

\* (mutant) only the upper limit is enforced
ClampDepthUpperOnly(depth) == Min(One, depth)

\* Math.max(0, Math.min(1, depth))
ClampDepth(depth) == Max(0, Min(One, depth))

\* (mutant) the pulse base is lowered by the whole depth
UpdateLFOsFullDepthBase(n) ==
    LET pulseBase == One - n.pulseDepth
        pulseAmp == n.pulseDepth \div 2
    IN [n EXCEPT
          !.pulseOscFreq = IF n.pulseOsc # 0 THEN SetTargetAtTime(@, n.modulationFreq) ELSE @,
          !.panOscFreq = IF n.panOsc # 0 THEN SetTargetAtTime(@, n.modulationFreq) ELSE @,
          !.pulseGain = SetTargetAtTime(@, pulseBase),
          !.pulseDepthGain = SetTargetAtTime(@, pulseAmp),
          !.panDepthGain = SetTargetAtTime(@, n.panDepth)]

UpdateLFOs(n) ==
    LET pulseBase == One - (n.pulseDepth \div 2)
        pulseAmp == n.pulseDepth \div 2
    IN [n EXCEPT
          !.pulseOscFreq = IF n.pulseOsc # 0 THEN SetTargetAtTime(@, n.modulationFreq) ELSE @,
          !.panOscFreq = IF n.panOsc # 0 THEN SetTargetAtTime(@, n.modulationFreq) ELSE @,
          !.pulseGain = SetTargetAtTime(@, pulseBase),
          !.pulseDepthGain = SetTargetAtTime(@, pulseAmp),
          !.panDepthGain = SetTargetAtTime(@, n.panDepth)]

NoiseSetModulation(n, freq, pulseDepth, panDepth) ==
    UpdateLFOs([n EXCEPT !.modulationFreq = freq,
                         !.pulseDepth = ClampDepth(pulseDepth),
                         !.panDepth = ClampDepth(panDepth)])

\* platform default of OscillatorNode.frequency, 440 Hz
DefaultOscFreq == 440 * One

\* The platform calls of start() and startLFOs() that can throw, in program
\* order; NoFault: none of them throws.
NoFault == "none"
NoiseFaults ==
    {"createBuffer", "createBufferSource", "node.start",
     "createOscillator:pulse", "createOscillator:pan", "pulseOsc.start", "panOsc.start"}

\* startLFOs() in which the platform call `fault' throws: the state the
\* exception leaves behind
StartLFOsThrows(n, fault) ==
    IF n.pulseOsc # 0 \/ n.panOsc # 0 THEN n
    ELSE IF fault = "createOscillator:pulse" THEN n
    ELSE LET s1 == [n EXCEPT !.pulseOsc = n.made,
                             !.pulseOscFreq = Param(DefaultOscFreq)]
             s2 == [s1 EXCEPT !.panOsc = n.made,
                              !.pulseOscFreq = Param(n.modulationFreq),
                              !.panOscFreq = Param(n.modulationFreq)]
             s3 == [s2 EXCEPT !.pulseOscStarted = TRUE]
             s4 == [s3 EXCEPT !.panOscStarted = TRUE]
         IN IF fault = "createOscillator:pan" THEN s1
            ELSE IF fault = "pulseOsc.start" THEN s2
            ELSE IF fault = "panOsc.start" THEN s3
            ELSE UpdateLFOs(s4)

StartLFOs(n) == StartLFOsThrows(n, NoFault)

\* start(initialFreq?, initialPulseDepth?, initialPanDepth?) in which the
\* platform call `fault' throws; an argument is Undef or <<v>>.  The nodes
\* created by the k-th start that gets to createBufferSource carry id k.
NoiseStartThrows(n, initialFreq, initialPulseDepth, initialPanDepth, fault) ==
    IF n.node # 0 THEN n
    ELSE LET s0 == [n EXCEPT
                      !.modulationFreq = IF Given(initialFreq) THEN Val(initialFreq) ELSE @,
                      !.pulseDepth = IF Given(initialPulseDepth) THEN Val(initialPulseDepth) ELSE @,
                      !.panDepth = IF Given(initialPanDepth) THEN Val(initialPanDepth) ELSE @]
             s1 == [s0 EXCEPT !.made = @ + 1, !.node = n.made + 1]
             s2 == [s1 EXCEPT !.nodeStarted = TRUE]
         IN IF fault \in {"createBuffer", "createBufferSource"} THEN s0
            ELSE IF fault = "node.start" THEN s1
            ELSE StartLFOsThrows(s2, fault)

\* (mutant) the arguments are stored before the already-running guard
NoiseStartStoresFirst(n, initialFreq, initialPulseDepth, initialPanDepth) ==
    IF n.node # 0
    THEN [n EXCEPT
            !.modulationFreq = IF Given(initialFreq) THEN Val(initialFreq) ELSE @,
            !.pulseDepth = IF Given(initialPulseDepth) THEN Val(initialPulseDepth) ELSE @,
            !.panDepth = IF Given(initialPanDepth) THEN Val(initialPanDepth) ELSE @]
    ELSE NoiseStartThrows(n, initialFreq, initialPulseDepth, initialPanDepth, NoFault)

\* (mutant) start() opens the master gain
NoiseStartFadesIn(n, initialFreq, initialPulseDepth, initialPanDepth) ==
    IF n.node # 0 THEN n
    ELSE [NoiseStartThrows(n, initialFreq, initialPulseDepth, initialPanDepth, NoFault)
            EXCEPT !.gain = SetTargetAtTime(@, One)]

NoiseStart(n, initialFreq, initialPulseDepth, initialPanDepth) ==
    NoiseStartThrows(n, initialFreq, initialPulseDepth, initialPanDepth, NoFault)

StopLFOs(n) ==
    [n EXCEPT !.pulseOsc = 0, !.panOsc = 0,
              !.pulseOscStarted = FALSE, !.panOscStarted = FALSE,
              !.pulseOscFreq = NoParam, !.panOscFreq = NoParam]

\* (mutant) stop() also disconnects the output
NoiseStopDisconnects(n) ==
    StopLFOs([n EXCEPT !.node = 0, !.nodeStarted = FALSE, !.dests = {}])

NoiseStop(n) == StopLFOs([n EXCEPT !.node = 0, !.nodeStarted = FALSE])

NoiseSettled(n) ==
    [n EXCEPT !.gain = Settled(@), !.pulseGain = Settled(@),
              !.pulseDepthGain = Settled(@), !.panDepthGain = Settled(@),
              !.pulseOscFreq = Settled(@), !.panOscFreq = Settled(@)]

NoiseRunning(n) == n.node # 0

---------------------------------------------------------------------------
(* BinauralBeatGenerator *)

NoInput == -1

BeatConstruct ==
    [ leftOsc |-> 0, rightOsc |-> 0,
      leftStarted |-> FALSE, rightStarted |-> FALSE,
      baseFreq |-> 0, beatFreq |-> 0,
      gain |-> Param(0),
      leftFreq |-> NoParam, rightFreq |-> NoParam,
      leftInput |-> NoInput, rightInput |-> NoInput,
      dests |-> {},
      made |-> 0 ]

BeatConnect(b, destination) == [b EXCEPT !.dests = @ \cup {destination}]

\* (mutant) the gain is assigned, not ramped
BeatSetVolumeImmediate(b, volume) == [b EXCEPT !.gain = Param(volume)]

BeatSetVolume(b, volume) == [b EXCEPT !.gain = SetTargetAtTime(@, volume)]

\* (mutant) the right ear is tuned to the beat frequency alone
UpdateOscillatorsNoCarrier(b) ==
    IF b.leftOsc # 0 /\ b.rightOsc # 0
    THEN [b EXCEPT !.leftFreq = [@ EXCEPT !.target = b.baseFreq],
                   !.rightFreq = [@ EXCEPT !.target = b.beatFreq]]
    ELSE b

UpdateOscillators(b) ==
    IF b.leftOsc # 0 /\ b.rightOsc # 0
    THEN LET leftFreq == b.baseFreq
             rightFreq == b.baseFreq + b.beatFreq
         IN [b EXCEPT !.leftFreq = SetTargetAtTime(@, leftFreq),
                      !.rightFreq = SetTargetAtTime(@, rightFreq)]
    ELSE b

\* (mutant) the frequencies are taken only while the oscillators exist
BeatSetFrequenciesLiveOnly(b, base, beatF) ==
    IF b.leftOsc = 0 \/ b.rightOsc = 0 THEN b
    ELSE UpdateOscillators([b EXCEPT !.baseFreq = base, !.beatFreq = beatF])

BeatSetFrequencies(b, base, beatF) ==
    UpdateOscillators([b EXCEPT !.baseFreq = base, !.beatFreq = beatF])

BeatFaults ==
    {"createOscillator:left", "createOscillator:right", "leftOsc.start", "rightOsc.start"}

\* start(initialBaseFreq?, initialBeatFreq?) in which the platform call
\* `fault' throws
BeatStartThrows(b, initialBaseFreq, initialBeatFreq, fault) ==
    IF b.leftOsc # 0 \/ b.rightOsc # 0 THEN b
    ELSE LET base == IF Given(initialBaseFreq) THEN Val(initialBaseFreq) ELSE b.baseFreq
             beatF == IF Given(initialBeatFreq) THEN Val(initialBeatFreq) ELSE b.beatFreq
             leftFreq == base
             rightFreq == base + beatF
             s0 == [b EXCEPT !.baseFreq = base, !.beatFreq = beatF]
             s1 == [s0 EXCEPT !.made = @ + 1, !.leftOsc = b.made + 1,
                              !.leftFreq = Param(DefaultOscFreq)]
             s2 == [s1 EXCEPT !.rightOsc = b.made + 1,
                              !.leftFreq = Param(leftFreq),
                              !.rightFreq = Param(rightFreq),
                              !.leftInput = 0, !.rightInput = 1]
             s3 == [s2 EXCEPT !.leftStarted = TRUE]
             s4 == [s3 EXCEPT !.rightStarted = TRUE]
         IN IF fault = "createOscillator:left" THEN s0
            ELSE IF fault = "createOscillator:right" THEN s1
            ELSE IF fault = "leftOsc.start" THEN s2
            ELSE IF fault = "rightOsc.start" THEN s3
            ELSE s4

\* (mutant) the oscillators are retuned by a ramp from the platform default
BeatStartRamps(b, initialBaseFreq, initialBeatFreq) ==
    IF b.leftOsc # 0 \/ b.rightOsc # 0 THEN b
    ELSE LET s == BeatStartThrows(b, initialBaseFreq, initialBeatFreq, NoFault)
         IN [s EXCEPT !.leftFreq = [value |-> DefaultOscFreq, target |-> s.baseFreq],
                      !.rightFreq = [value |-> DefaultOscFreq,
                                     target |-> s.baseFreq + s.beatFreq]]

BeatStart(b, initialBaseFreq, initialBeatFreq) ==
    BeatStartThrows(b, initialBaseFreq, initialBeatFreq, NoFault)

BeatStop(b) ==
    [b EXCEPT !.leftOsc = 0, !.rightOsc = 0,
              !.leftStarted = FALSE, !.rightStarted = FALSE,
              !.leftFreq = NoParam, !.rightFreq = NoParam,
              !.leftInput = NoInput, !.rightInput = NoInput]

BeatSettled(b) ==
    [b EXCEPT !.gain = Settled(@), !.leftFreq = Settled(@), !.rightFreq = Settled(@)]

BeatRunning(b) == b.leftOsc # 0 /\ b.rightOsc # 0

---------------------------------------------------------------------------
(* usePresets: localStorage *)

Sides == {"front", "back"}
Slots == 1..4

NoItem == [kind |-> "none"]

FrontItem(v, nv, bv, base, beatF) ==
    [kind |-> "front", volume |-> v, noiseVolume |-> nv, beatVolume |-> bv,
     baseFreq |-> base, beatFreq |-> beatF]

BackItem(v, f, pulse, panD, nv) ==
    [kind |-> "back", volume |-> v, neuralFreq |-> f, neuralPulseDepth |-> pulse,
     neuralPanDepth |-> panD, neuralNoiseVolume |-> nv]

\* the five fields loadPreset tests for a side
PresetFields(side) ==
    IF side = "front"
    THEN {"volume", "noiseVolume", "beatVolume", "baseFreq", "beatFreq"}
    ELSE {"volume", "neuralFreq", "neuralPulseDepth", "neuralPanDepth",
          "neuralNoiseVolume"}

\* Stored strings that give loadPreset no object to test: "" (falsy, so
\* `!stored' returns), a text JSON.parse throws on, and "null" (reading a
\* property of null throws); the last two end in the catch block.
EmptyItem == [kind |-> "empty"]
TextItem == [kind |-> "text"]
NullItem == [kind |-> "null"]

\* typeof data[f] for a parsed object: a record holds the fields the object
\* has; `strings' names those whose value is a string
TypeOf(data, f) ==
    IF f \notin DOMAIN data THEN "undefined"
    ELSE IF "strings" \in DOMAIN data /\ f \in data.strings THEN "string"
    ELSE "number"

\* loadPreset: the parsed object when it has the five numbers of its side, else null
LoadPreset(store, side, slot) ==
    LET stored == store[<<side, slot>>]
    IN IF stored = NoItem \/ stored = EmptyItem THEN NoItem
       ELSE IF stored = TextItem \/ stored = NullItem THEN NoItem
       ELSE IF \A f \in PresetFields(side) : TypeOf(stored, f) = "number"
            THEN stored
            ELSE NoItem

\* hasPreset: getItem(key) !== null
HasPreset(store, side, slot) == store[<<side, slot>>] # NoItem

\* (mutant) the storage key leaves out the side
SavePresetSharedKey(store, side, slot, data) ==
    [store EXCEPT ![<<"front", slot>>] = data, ![<<"back", slot>>] = data]

\* savePreset when localStorage.setItem does not throw
SavePreset(store, side, slot, data) == [store EXCEPT ![<<side, slot>>] = data]

\* deletePreset when localStorage.removeItem does not throw
DeletePreset(store, side, slot) == [store EXCEPT ![<<side, slot>>] = NoItem]

\* what the device's storage holds when the App mounts: presets of an earlier
\* session; any number passes loadPreset's validation, also a depth outside [0,1]
StoredAtMount ==
    [k \in Sides \X Slots |->
        CASE k = <<"front", 1>> -> FrontItem(100, 20, 70, 20000, 1000)
          [] k = <<"back", 1>> -> BackItem(100, 400, 150, -20, 90)
          [] OTHER -> NoItem]

\* storage holding, next to the two presets above, items the App did not
\* write: a text that is not JSON, objects that lack a field or hold a
\* string in one, "null", a Classic preset under a Pulse key, and ""
StoredForeign ==
    [k \in Sides \X Slots |->
        CASE k = <<"front", 2>> -> TextItem
          [] k = <<"front", 3>> ->
                [kind |-> "front", volume |-> 100, noiseVolume |-> 20,
                 beatVolume |-> 70, baseFreq |-> 20000]
          [] k = <<"front", 4>> ->
                [FrontItem(100, 20, 70, 20000, 1000) EXCEPT !.kind = "front"]
                   @@ [strings |-> {"baseFreq"}]
          [] k = <<"back", 2>> -> NullItem
          [] k = <<"back", 3>> -> FrontItem(100, 20, 70, 20000, 1000)
          [] k = <<"back", 4>> -> EmptyItem
          [] OTHER -> StoredAtMount[k]]

---------------------------------------------------------------------------
(* App *)

\* useState initial values
UiInit ==
    [ isPlaying |-> FALSE, volume |-> 30, isFlipped |-> FALSE,
      activePresetFront |-> 0, activePresetBack |-> 0,
      noiseVolume |-> 50, beatVolume |-> 50, baseFreq |-> 60 * One, beatFreq |-> 4 * One,
      neuralFreq |-> 50, neuralPulseDepth |-> 80, neuralPanDepth |-> 50,
      neuralNoiseVolume |-> 50 ]

\* The values the sliders are moved to, each within its slider's min..max.
\* The three per-generator volumes and the pan depth change through the
\* presets only, which keeps the state space within reach of TLC.
SliderValues ==
    [ volume |-> {30, 100},
      baseFreq |-> {60 * One, 200 * One},
      beatFreq |-> {4 * One, 10 * One},
      neuralFreq |-> {50, 4 * One},
      neuralPulseDepth |-> {80, 20} ]

SliderFields == DOMAIN SliderValues

\* the dependency list of the policy effect
PolicyDeps(u) ==
    <<u.isPlaying, u.volume, u.noiseVolume, u.beatVolume, u.baseFreq, u.beatFreq,
      u.isFlipped, u.neuralFreq, u.neuralPulseDepth, u.neuralPanDepth, u.neuralNoiseVolume>>

\* a * b of two fixed-point numbers
Times(a, b) == (a * b) \div One

\* (mutant) the Classic branch leaves the modulation as it is
PolicyNoiseKeepsModulation(n, u) ==
    IF ~u.isFlipped
    THEN NoiseSetVolume(n, IF u.isPlaying THEN Times(u.noiseVolume, u.volume) ELSE 0)
    ELSE NoiseSetModulation(
             NoiseSetVolume(n, IF u.isPlaying THEN Times(u.neuralNoiseVolume, u.volume) ELSE 0),
             u.neuralFreq, u.neuralPulseDepth, u.neuralPanDepth)

\* (mutant) the Pulse branch does not silence the noise on pause
PolicyNoiseLoudOnPause(n, u) ==
    IF ~u.isFlipped
    THEN NoiseSetModulation(
             NoiseSetVolume(n, IF u.isPlaying THEN Times(u.noiseVolume, u.volume) ELSE 0),
             0, 0, 0)
    ELSE NoiseSetModulation(
             NoiseSetVolume(n, Times(u.neuralNoiseVolume, u.volume)),
             u.neuralFreq, u.neuralPulseDepth, u.neuralPanDepth)

\* (mutant) the Pulse branch passes the two depths in the wrong order
PolicyNoiseSwapsDepths(n, u) ==
    IF ~u.isFlipped
    THEN NoiseSetModulation(
             NoiseSetVolume(n, IF u.isPlaying THEN Times(u.noiseVolume, u.volume) ELSE 0),
             0, 0, 0)
    ELSE NoiseSetModulation(
             NoiseSetVolume(n, IF u.isPlaying THEN Times(u.neuralNoiseVolume, u.volume) ELSE 0),
             u.neuralFreq, u.neuralPanDepth, u.neuralPulseDepth)

\* the effect's calls on noiseGenRef.current
PolicyNoise(n, u) ==
    IF ~u.isFlipped
    THEN NoiseSetModulation(
             NoiseSetVolume(n, IF u.isPlaying THEN Times(u.noiseVolume, u.volume) ELSE 0),
             0, 0, 0)
    ELSE NoiseSetModulation(
             NoiseSetVolume(n, IF u.isPlaying THEN Times(u.neuralNoiseVolume, u.volume) ELSE 0),
             u.neuralFreq, u.neuralPulseDepth, u.neuralPanDepth)

\* (mutant) the Pulse branch leaves the beat volume as it is
PolicyBeatNotMuted(b, u) ==
    IF ~u.isFlipped
    THEN BeatSetFrequencies(
             BeatSetVolume(b, IF u.isPlaying THEN Times(u.beatVolume, u.volume) ELSE 0),
             u.baseFreq, u.beatFreq)
    ELSE b

\* (mutant) the Classic branch retunes the oscillators only while playing
PolicyBeatTunesWhilePlaying(b, u) ==
    IF ~u.isFlipped
    THEN IF u.isPlaying
         THEN BeatSetFrequencies(BeatSetVolume(b, Times(u.beatVolume, u.volume)),
                                 u.baseFreq, u.beatFreq)
         ELSE BeatSetVolume(b, 0)
    ELSE BeatSetVolume(b, 0)

\* the effect's calls on beatGenRef.current
PolicyBeat(b, u) ==
    IF ~u.isFlipped
    THEN BeatSetFrequencies(
             BeatSetVolume(b, IF u.isPlaying THEN Times(u.beatVolume, u.volume) ELSE 0),
             u.baseFreq, u.beatFreq)
    ELSE BeatSetVolume(b, 0)

Init ==
    /\ noise = NoiseConstruct
    /\ beat = BeatConstruct
    /\ ui = UiInit
    /\ created = FALSE
    /\ storage = StoredAtMount
    /\ lastCall = [op |-> "none"]
    /\ host = NoHost

\* The commit that follows a handler: React re-renders and, when a dependency
\* of the policy effect changed, runs the effect on the generators the refs
\* hold (n, b: the generators as the handler left them; u: the new state).
\* (mutant) a mode change rebuilds the noise source
EffectNoiseRestarts(n, isCreated, old, u) ==
    IF isCreated /\ PolicyDeps(u) # PolicyDeps(old)
    THEN IF u.isFlipped # old.isFlipped
         THEN PolicyNoise(NoiseStart(NoiseStop(n), Undef, Undef, Undef), u)
         ELSE PolicyNoise(n, u)
    ELSE n

EffectNoise(n, isCreated, old, u) ==
    IF isCreated /\ PolicyDeps(u) # PolicyDeps(old) THEN PolicyNoise(n, u) ELSE n

EffectBeat(b, isCreated, old, u) ==
    IF isCreated /\ PolicyDeps(u) # PolicyDeps(old) THEN PolicyBeat(b, u) ELSE b

\* The first call builds the AudioContext and both generators, connects them
\* to ctx.destination and, when createMediaStreamBridge returns a node, to the
\* bridge, and starts them; every call toggles isPlaying.
TogglePlayGenerators ==
    /\ created' = TRUE
    /\ IF created
       THEN /\ noise' = EffectNoise(noise, TRUE, ui, ui')
            /\ beat' = EffectBeat(beat, TRUE, ui, ui')
       ELSE \E bridge \in BOOLEAN :
              LET dests == {"destination"} \cup (IF bridge THEN {"bridge"} ELSE {})
                  initModFreq == IF ui.isFlipped THEN ui.neuralFreq ELSE 0
                  initPulse == IF ui.isFlipped THEN ui.neuralPulseDepth ELSE 0
                  initPan == IF ui.isFlipped THEN ui.neuralPanDepth ELSE 0
                  noiseGen == [NoiseConstruct EXCEPT !.dests = dests]
                  beatGen == [BeatConstruct EXCEPT !.dests = dests]
              IN /\ noise' = EffectNoise(
                                 NoiseStart(noiseGen, <<initModFreq>>, <<initPulse>>, <<initPan>>),
                                 TRUE, ui, ui')
                 /\ beat' = EffectBeat(
                                 BeatStart(beatGen, <<ui.baseFreq>>, <<ui.beatFreq>>),
                                 TRUE, ui, ui')

TogglePlay ==
    /\ ui' = [ui EXCEPT !.isPlaying = ~ui.isPlaying]
    /\ TogglePlayGenerators
    /\ UNCHANGED <<storage, lastCall, host>>

HandleFlip(flipTo) ==
    /\ ui' = [ui EXCEPT !.activePresetFront = 0, !.activePresetBack = 0,
                        !.isFlipped = flipTo]
    /\ noise' = EffectNoise(noise, created, ui, ui')
    /\ beat' = EffectBeat(beat, created, ui, ui')
    /\ UNCHANGED <<created, storage, lastCall, host>>

\* onChange of a slider: the state setter of its cell
SetSlider(field, v) ==
    /\ v # ui[field]
    /\ ui' = [ui EXCEPT ![field] = v]
    /\ noise' = EffectNoise(noise, created, ui, ui')
    /\ beat' = EffectBeat(beat, created, ui, ui')
    /\ UNCHANGED <<created, storage, lastCall, host>>

\* the state setters handleLoadPreset calls for a loaded preset
PresetApplied(u, preset, side, slot) ==
    IF side = "front"
    THEN [u EXCEPT !.volume = preset.volume,
                   !.noiseVolume = preset.noiseVolume,
                   !.beatVolume = preset.beatVolume,
                   !.baseFreq = preset.baseFreq,
                   !.beatFreq = preset.beatFreq,
                   !.activePresetFront = slot]
    ELSE [u EXCEPT !.volume = preset.volume,
                   !.neuralFreq = preset.neuralFreq,
                   !.neuralPulseDepth = preset.neuralPulseDepth,
                   !.neuralPanDepth = preset.neuralPanDepth,
                   !.neuralNoiseVolume = preset.neuralNoiseVolume,
                   !.activePresetBack = slot]

\* (mutant) the marker is set before the null check
LoadedMarksFirst(u, preset, side, slot) ==
    IF preset = NoItem
    THEN IF side = "front" THEN [u EXCEPT !.activePresetFront = slot]
                           ELSE [u EXCEPT !.activePresetBack = slot]
    ELSE PresetApplied(u, preset, side, slot)

\* handleLoadPreset's state after loadPreset returned preset (null: return)
Loaded(u, preset, side, slot) ==
    IF preset = NoItem THEN u ELSE PresetApplied(u, preset, side, slot)

HandleLoadPreset(side, slot) ==
    LET preset == LoadPreset(storage, side, slot)
    IN /\ preset # NoItem
       /\ ui' = Loaded(ui, preset, side, slot)
       /\ noise' = EffectNoise(noise, created, ui, ui')
       /\ beat' = EffectBeat(beat, created, ui, ui')
       /\ UNCHANGED <<created, storage, lastCall, host>>

\* The render thread is left out of Next: under Spec every ramp stays in
\* flight, and the properties checked under it speak of targets and stored
\* parameters.  SpecNoise and SpecBeat let the ramps settle.
Next ==
    \/ TogglePlay
    \/ \E flipTo \in BOOLEAN : HandleFlip(flipTo)
    \/ \E field \in SliderFields : \E v \in SliderValues[field] : SetSlider(field, v)
    \/ \E side \in Sides : \E slot \in Slots : HandleLoadPreset(side, slot)

Spec == Init /\ [][Next]_vars

---------------------------------------------------------------------------
(* PinkNoiseGenerator driven directly through its public interface *)

InitGenerators ==
    /\ noise = NoiseConstruct
    /\ beat = BeatConstruct
    /\ ui = UiInit
    /\ created = FALSE
    /\ storage = StoredAtMount
    /\ lastCall = [op |-> "construct"]
    /\ host = NoHost

CallNoiseStart(initialFreq, initialPulseDepth, initialPanDepth) ==
    /\ NoiseRunning(noise) \/ noise.made < MaxStarts
    /\ noise' = NoiseStart(noise, initialFreq, initialPulseDepth, initialPanDepth)
    /\ lastCall' = [gen |-> "noise", op |-> "start", wasRunning |-> NoiseRunning(noise)]
    /\ UNCHANGED <<beat, ui, created, storage, host>>

CallNoiseSetModulation(freq, pulseDepth, panDepth) ==
    /\ noise' = NoiseSetModulation(noise, freq, pulseDepth, panDepth)
    /\ lastCall' = [gen |-> "noise", op |-> "setModulation",
                    pulseDepth |-> pulseDepth, panDepth |-> panDepth]
    /\ UNCHANGED <<beat, ui, created, storage, host>>

CallNoiseSetVolume(volume) ==
    /\ noise' = NoiseSetVolume(noise, volume)
    /\ lastCall' = [gen |-> "noise", op |-> "setVolume", volume |-> volume]
    /\ UNCHANGED <<beat, ui, created, storage, host>>

CallNoiseStop ==
    /\ noise' = NoiseStop(noise)
    /\ lastCall' = [gen |-> "noise", op |-> "stop", wasRunning |-> NoiseRunning(noise)]
    /\ UNCHANGED <<beat, ui, created, storage, host>>

\* the audio render thread runs until every ramp has reached its target
NoiseSettle ==
    /\ NoiseSettled(noise) # noise
    /\ noise' = NoiseSettled(noise)
    /\ lastCall' = [gen |-> "noise", op |-> "settle"]
    /\ UNCHANGED <<beat, ui, created, storage, host>>

NextNoise ==
    \/ \E f \in Opt(FreqArgs) : \E p \in Opt(DepthArgs) : \E q \in Opt(PanDepthArgs) :
          CallNoiseStart(f, p, q)
    \/ \E f \in FreqArgs : \E p \in DepthArgs : \E q \in PanDepthArgs :
          CallNoiseSetModulation(f, p, q)
    \/ \E v \in VolumeArgs : CallNoiseSetVolume(v)
    \/ CallNoiseStop
    \/ NoiseSettle

SpecNoise == InitGenerators /\ [][NextNoise]_vars

---------------------------------------------------------------------------
(* BinauralBeatGenerator driven directly through its public interface *)

CallBeatStart(initialBaseFreq, initialBeatFreq) ==
    /\ BeatRunning(beat) \/ beat.made < MaxStarts
    /\ beat' = BeatStart(beat, initialBaseFreq, initialBeatFreq)
    /\ lastCall' = [gen |-> "beat", op |-> "start", wasRunning |-> BeatRunning(beat)]
    /\ UNCHANGED <<noise, ui, created, storage, host>>

CallBeatSetFrequencies(base, beatF) ==
    /\ beat' = BeatSetFrequencies(beat, base, beatF)
    /\ lastCall' = [gen |-> "beat", op |-> "setFrequencies",
                    baseFreq |-> base, beatFreq |-> beatF]
    /\ UNCHANGED <<noise, ui, created, storage, host>>

CallBeatSetVolume(volume) ==
    /\ beat' = BeatSetVolume(beat, volume)
    /\ lastCall' = [gen |-> "beat", op |-> "setVolume", volume |-> volume]
    /\ UNCHANGED <<noise, ui, created, storage, host>>

CallBeatStop ==
    /\ beat' = BeatStop(beat)
    /\ lastCall' = [gen |-> "beat", op |-> "stop", wasRunning |-> BeatRunning(beat)]
    /\ UNCHANGED <<noise, ui, created, storage, host>>

BeatSettle ==
    /\ BeatSettled(beat) # beat
    /\ beat' = BeatSettled(beat)
    /\ lastCall' = [gen |-> "beat", op |-> "settle"]
    /\ UNCHANGED <<noise, ui, created, storage, host>>

NextBeat ==
    \/ \E base \in Opt(BaseArgs) : \E beatF \in Opt(BeatArgs) : CallBeatStart(base, beatF)
    \/ \E base \in BaseArgs : \E beatF \in BeatArgs : CallBeatSetFrequencies(base, beatF)
    \/ \E v \in VolumeArgs : CallBeatSetVolume(v)
    \/ CallBeatStop
    \/ BeatSettle

SpecBeat == InitGenerators /\ [][NextBeat]_vars

---------------------------------------------------------------------------
(* Both generators of one AudioContext.  The two objects share no field, so
   a behaviour drives one of them, constructed and connected to the context's
   destination, through its public interface while the other rests in a
   state the program can have left it in. *)

Generators == {"noise", "beat"}

RestingNoise ==
    {NoiseConstruct,
     NoiseSetVolume(NoiseStart(NoiseConnect(NoiseConstruct, "destination"),
                               <<50>>, <<80>>, <<150>>), 50)}

RestingBeat ==
    {BeatConstruct,
     BeatSetVolume(BeatStart(BeatConnect(BeatConstruct, "destination"),
                             <<6000>>, <<400>>), 50)}

InitDriven ==
    /\ \E g \in Generators :
          /\ lastCall = [gen |-> g, op |-> "construct"]
          /\ noise \in IF g = "noise" THEN {NoiseConnect(NoiseConstruct, "destination")}
                                      ELSE RestingNoise
          /\ beat \in IF g = "beat" THEN {BeatConnect(BeatConstruct, "destination")}
                                    ELSE RestingBeat
    /\ ui = UiInit
    /\ created = FALSE
    /\ storage = StoredAtMount
    /\ host = NoHost

NextGenerators ==
    \/ lastCall.gen = "noise" /\ NextNoise
    \/ lastCall.gen = "beat" /\ NextBeat

SpecGenerators == InitDriven /\ [][NextGenerators]_vars

\* The volume interface across the lifecycle.  The render thread keeps
\* running, so a pending ramp is eventually completed.
NextVolume ==
    \/ /\ lastCall.gen = "noise"
       /\ \/ \E f \in Opt(FreqArgs) : CallNoiseStart(f, Undef, Undef)
          \/ \E v \in VolumeArgs : CallNoiseSetVolume(v)
          \/ CallNoiseStop
          \/ NoiseSettle
    \/ /\ lastCall.gen = "beat"
       /\ \/ \E base \in Opt(BaseArgs) : CallBeatStart(base, Undef)
          \/ \E v \in VolumeArgs : CallBeatSetVolume(v)
          \/ CallBeatStop
          \/ BeatSettle

SpecVolumeFair ==
    InitDriven /\ [][NextVolume]_vars /\ WF_vars(NoiseSettle) /\ WF_vars(BeatSettle)

---------------------------------------------------------------------------
(* App with its preset handlers *)

\* ctx.destination and the MediaStreamAudioDestinationNode of the bridge
Endpoints == {"destination", "bridge"}

\* the preset handleSavePreset builds from the current state
PresetOf(u, side) ==
    IF side = "front"
    THEN FrontItem(u.volume, u.noiseVolume, u.beatVolume, u.baseFreq, u.beatFreq)
    ELSE BackItem(u.volume, u.neuralFreq, u.neuralPulseDepth, u.neuralPanDepth,
                  u.neuralNoiseVolume)

\* saved: whether localStorage.setItem returned (it throws when the quota is
\* exceeded or storage is disabled)
HandleSavePreset(side, slot, saved) ==
    /\ storage' = IF saved THEN SavePreset(storage, side, slot, PresetOf(ui, side))
                            ELSE storage
    /\ ui' = IF ~saved THEN ui
             ELSE IF side = "front" THEN [ui EXCEPT !.activePresetFront = slot]
             ELSE [ui EXCEPT !.activePresetBack = slot]
    /\ noise' = EffectNoise(noise, created, ui, ui')
    /\ beat' = EffectBeat(beat, created, ui, ui')
    /\ UNCHANGED <<created, lastCall, host>>

\* (mutant) the delete handler leaves the active marker alone
HandleDeleteKeepsMarker(side, slot, deleted) ==
    /\ storage' = IF deleted THEN DeletePreset(storage, side, slot) ELSE storage
    /\ UNCHANGED <<ui, noise, beat, created, lastCall, host>>

HandleDeletePreset(side, slot, deleted) ==
    /\ storage' = IF deleted THEN DeletePreset(storage, side, slot) ELSE storage
    /\ ui' = IF ~deleted THEN ui
             ELSE IF side = "front" /\ ui.activePresetFront = slot
                  THEN [ui EXCEPT !.activePresetFront = 0]
             ELSE IF side = "back" /\ ui.activePresetBack = slot
                  THEN [ui EXCEPT !.activePresetBack = 0]
             ELSE ui
    /\ noise' = EffectNoise(noise, created, ui, ui')
    /\ beat' = EffectBeat(beat, created, ui, ui')
    /\ UNCHANGED <<created, lastCall, host>>

\* the slots the preset buttons are pressed on
PressedSlots == {1, 2}

\* the slider moved between two presses (volume is part of both kinds of preset)
PresetSliders == {"volume"}

\* App as mounted, and App after the first togglePlay in Classic mode with the
\* bridge available: playing, the generators built, connected and started
PlayingAtMount ==
    LET u == [UiInit EXCEPT !.isPlaying = TRUE]
        noiseGen == [NoiseConstruct EXCEPT !.dests = Endpoints]
        beatGen == [BeatConstruct EXCEPT !.dests = Endpoints]
    IN [ ui |-> u,
         noise |-> PolicyNoise(NoiseStart(noiseGen, <<0>>, <<0>>, <<0>>), u),
         beat |-> PolicyBeat(BeatStart(beatGen, <<UiInit.baseFreq>>, <<UiInit.beatFreq>>), u) ]

InitPresets ==
    /\ \/ noise = NoiseConstruct /\ beat = BeatConstruct /\ ui = UiInit /\ created = FALSE
       \/ /\ noise = PlayingAtMount.noise
          /\ beat = PlayingAtMount.beat
          /\ ui = PlayingAtMount.ui
          /\ created = TRUE
    /\ storage = StoredAtMount
    /\ lastCall = [op |-> "none"]
    /\ host = NoHost

NextPresets ==
    \/ \E flipTo \in BOOLEAN : HandleFlip(flipTo)
    \/ \E field \in PresetSliders : \E v \in SliderValues[field] : SetSlider(field, v)
    \/ \E side \in Sides : \E slot \in PressedSlots : \E saved \in BOOLEAN :
          HandleSavePreset(side, slot, saved)
    \/ \E side \in Sides : \E slot \in PressedSlots : HandleLoadPreset(side, slot)
    \/ \E side \in Sides : \E slot \in PressedSlots : \E deleted \in BOOLEAN :
          HandleDeletePreset(side, slot, deleted)

SpecPresets == InitPresets /\ [][NextPresets]_vars

\* The preset buttons over storage with foreign items: every load button,
\* the save buttons of slot 2 (over a foreign item) and the delete buttons
\* of slot 1 (leaving the key absent).  A press of a load button is recorded
\* also when loadPreset returns null and the handler returns at once.
PressLoadPreset(side, slot) ==
    LET preset == LoadPreset(storage, side, slot)
    IN /\ ui' = Loaded(ui, preset, side, slot)
       /\ noise' = EffectNoise(noise, created, ui, ui')
       /\ beat' = EffectBeat(beat, created, ui, ui')
       /\ lastCall' = [op |-> "handleLoadPreset", side |-> side, slot |-> slot,
                       hasPreset |-> HasPreset(storage, side, slot)]
       /\ UNCHANGED <<created, storage, host>>

InitStored ==
    /\ noise = PlayingAtMount.noise
    /\ beat = PlayingAtMount.beat
    /\ ui = PlayingAtMount.ui
    /\ created = TRUE
    /\ storage = StoredForeign
    /\ lastCall = [op |-> "none"]
    /\ host = NoHost

NextStored ==
    \/ \E flipTo \in BOOLEAN : HandleFlip(flipTo)
    \/ \E field \in PresetSliders : \E v \in SliderValues[field] : SetSlider(field, v)
    \/ \E side \in Sides : \E slot \in Slots : PressLoadPreset(side, slot)
    \/ \E side \in Sides : \E saved \in BOOLEAN : HandleSavePreset(side, 2, saved)
    \/ \E side \in Sides : \E deleted \in BOOLEAN : HandleDeletePreset(side, 1, deleted)

SpecStored == InitStored /\ [][NextStored]_vars

---------------------------------------------------------------------------
(* Fan-out: connect() on a generator across its lifecycle *)

InitConnect ==
    /\ \E g \in Generators : lastCall = [gen |-> g, op |-> "construct"]
    /\ noise = NoiseConstruct
    /\ beat = BeatConstruct
    /\ ui = UiInit
    /\ created = FALSE
    /\ storage = StoredAtMount
    /\ host = NoHost

CallNoiseConnect(destination) ==
    /\ noise' = NoiseConnect(noise, destination)
    /\ lastCall' = [gen |-> "noise", op |-> "connect", destination |-> destination]
    /\ UNCHANGED <<beat, ui, created, storage, host>>

CallBeatConnect(destination) ==
    /\ beat' = BeatConnect(beat, destination)
    /\ lastCall' = [gen |-> "beat", op |-> "connect", destination |-> destination]
    /\ UNCHANGED <<noise, ui, created, storage, host>>

NextConnect ==
    \/ /\ lastCall.gen = "noise"
       /\ \/ \E d \in Endpoints : CallNoiseConnect(d)
          \/ \E f \in Opt(FreqArgs) : CallNoiseStart(f, Undef, Undef)
          \/ \E f \in FreqArgs : \E p \in DepthArgs : CallNoiseSetModulation(f, p, 0)
          \/ \E v \in VolumeArgs : CallNoiseSetVolume(v)
          \/ CallNoiseStop
    \/ /\ lastCall.gen = "beat"
       /\ \/ \E d \in Endpoints : CallBeatConnect(d)
          \/ \E base \in Opt(BaseArgs) : CallBeatStart(base, Undef)
          \/ \E base \in BaseArgs : \E beatF \in BeatArgs : CallBeatSetFrequencies(base, beatF)
          \/ \E v \in VolumeArgs : CallBeatSetVolume(v)
          \/ CallBeatStop

SpecConnect == InitConnect /\ [][NextConnect]_vars

---------------------------------------------------------------------------
(* PinkNoiseGenerator.start: the loop that fills the noise buffer.

   The arithmetic is kept symbolic.  A value is the set of its terms, a term
   [gain, decay, power, sample] standing for gain * decay^power * white[sample];
   gains are in units of 1e-7 and decays in units of 1e-5, as written in the
   source.  Adding two values is the union of their terms, multiplying a
   filter state by its decay raises the power of each of its terms. *)

\* context.sampleRate, in samples per second
SampleRate == 2

\* values of Math.random() * 2 - 1, in hundredths
WhiteSamples == {-100, 0, 50}

\* b0..b5: the feedback coefficient and the input gain of each filter state
Decay == <<99886, 99332, 96900, 86650, 55000, -76160>>
Gain == <<555179, 750759, 1538520, 3104856, 5329522, -168980>>

\* b6 = white * 0.115926 and the direct path white * 0.5362
DelayGain == 1159260
DirectGain == 5362000

Term(gain, sample) == [gain |-> gain, decay |-> 0, power |-> 0, sample |-> sample]

\* decay * b
Decayed(decay, b) == {[t EXCEPT !.decay = decay, !.power = @ + 1] : t \in b}

BufferInit ==
    [ module |-> "PinkNoiseGenerator.start",
      channels |-> 1, bufferSize |-> 2 * SampleRate, rate |-> SampleRate,
      i |-> 0, white |-> <<>>,
      b |-> [k \in 1..6 |-> {}], b6 |-> {},
      output |-> <<>>,
      source |-> FALSE, loop |-> FALSE ]

\* (mutant) b6 is refreshed before the output sample is formed
FillSampleEarlyDelay(h, white) ==
    LET i == h.i + 1
        b == [k \in 1..6 |-> Decayed(Decay[k], h.b[k]) \cup {Term(Gain[k], i)}]
        b6 == {Term(DelayGain, i)}
        sum == UNION {b[k] : k \in 1..6} \cup b6 \cup {Term(DirectGain, i)}
    IN [h EXCEPT !.i = i, !.white = Append(@, white), !.b = b, !.b6 = b6,
                 !.output = Append(@, [scale |-> 11, terms |-> sum])]

\* one pass of the loop body, on the sample numbered h.i + 1
FillSample(h, white) ==
    LET i == h.i + 1
        b == [k \in 1..6 |-> Decayed(Decay[k], h.b[k]) \cup {Term(Gain[k], i)}]
        sum == UNION {b[k] : k \in 1..6} \cup h.b6 \cup {Term(DirectGain, i)}
    IN [h EXCEPT !.i = i, !.white = Append(@, white), !.b = b,
                 !.output = Append(@, [scale |-> 11, terms |-> sum]),
                 !.b6 = {Term(DelayGain, i)}]

InitBuffer ==
    /\ host = BufferInit
    /\ noise = NoiseConstruct
    /\ beat = BeatConstruct
    /\ ui = UiInit
    /\ created = FALSE
    /\ storage = StoredAtMount
    /\ lastCall = [op |-> "none"]

LoopBody(white) ==
    /\ host.i < host.bufferSize
    /\ host' = FillSample(host, white)
    /\ UNCHANGED <<noise, beat, ui, created, storage, lastCall>>

\* createBufferSource(); node.buffer = buffer; node.loop = true
CreateSource ==
    /\ host.i = host.bufferSize /\ ~host.source
    /\ host' = [host EXCEPT !.source = TRUE, !.loop = TRUE]
    /\ UNCHANGED <<noise, beat, ui, created, storage, lastCall>>

NextBuffer ==
    \/ \E white \in WhiteSamples : LoopBody(white)
    \/ CreateSource

SpecBuffer == InitBuffer /\ [][NextBuffer]_vars

---------------------------------------------------------------------------
(* unlockIOSAudio.ts: the silent HTML5 audio element.

   play() on a media element returns a promise that stays in the element's
   list of pending play promises until playback starts; the platform then
   takes the list and queues a task that resolves them.  pause() rejects the
   promises still in the list, not those a queued task already holds.  Each
   function of the module and each queued task runs to completion. *)

\* how many play() promises of unlockIOSAudio may be unsettled at a time
MaxPlays == 2

\* everything but the platform helpers
coreVars == <<noise, beat, ui, created, storage, lastCall>>

UnlockInit(ios, audioSession) ==
    [ module |-> "unlockIOSAudio",
      ios |-> ios,                      \* isIOS()
      audioSession |-> audioSession,    \* navigator.audioSession exists
      silentAudioElement |-> FALSE,     \* non-null
      paused |-> TRUE,                  \* silentAudioElement.paused
      isUnlocked |-> FALSE,
      visibilityHandlerAttached |-> FALSE,
      audioSessionConfigured |-> FALSE,
      pending |-> 0,                    \* unlock promises in the element's list
      resolving |-> 0,                  \* queued tasks that will resolve unlock promises
      hidden |-> FALSE,                 \* document.visibilityState === 'hidden'
      stopped |-> FALSE ]               \* stopIOSAudioUnlock ran after the last unlockIOSAudio

ConfigureAudioSession(h) ==
    IF h.audioSessionConfigured THEN h
    ELSE IF h.audioSession THEN [h EXCEPT !.audioSessionConfigured = TRUE]
    ELSE h

InitIOSAudioOp(h) ==
    IF ~h.ios \/ h.silentAudioElement THEN h
    ELSE [h EXCEPT !.silentAudioElement = TRUE, !.paused = TRUE,
                   !.visibilityHandlerAttached = TRUE]

\* silentAudioElement.play(); unlock: the promise carries the .then of
\* unlockIOSAudio; allowed: the platform lets the element play
ElementPlay(h, unlock, allowed) ==
    IF ~allowed THEN h
    ELSE [h EXCEPT !.paused = FALSE,
                   !.pending = IF unlock THEN @ + 1 ELSE @]

\* silentAudioElement.pause()
ElementPause(h) == [h EXCEPT !.paused = TRUE, !.pending = 0]

StopIOSAudioUnlockOp(h) ==
    IF h.silentAudioElement
    THEN [ElementPause(h) EXCEPT !.isUnlocked = FALSE]
    ELSE h

UnlockIOSAudioOp(h, allowed) ==
    LET h1 == ConfigureAudioSession(h)
        h2 == IF h1.silentAudioElement THEN h1 ELSE InitIOSAudioOp(h1)
        h3 == IF ~h1.ios \/ h1.isUnlocked THEN h1
              ELSE IF ~h2.silentAudioElement THEN h2
              ELSE ElementPlay(h2, TRUE, allowed)
    IN [h3 EXCEPT !.stopped = FALSE]

InitUnlock ==
    /\ \E ios \in BOOLEAN : \E audioSession \in BOOLEAN :
          host = UnlockInit(ios, audioSession)
    /\ noise = NoiseConstruct
    /\ beat = BeatConstruct
    /\ ui = UiInit
    /\ created = FALSE
    /\ storage = StoredAtMount
    /\ lastCall = [op |-> "none"]

InitIOSAudio ==
    /\ host' = InitIOSAudioOp(host)
    /\ UNCHANGED coreVars

UnlockIOSAudio(allowed) ==
    /\ host.pending + host.resolving < MaxPlays
    /\ host' = UnlockIOSAudioOp(host, allowed)
    /\ UNCHANGED coreVars

KeepIOSAudioAlive(allowed) ==
    /\ host' = IF ~host.silentAudioElement \/ ~host.isUnlocked THEN host
               ELSE IF host.paused THEN ElementPlay(host, FALSE, allowed)
               ELSE host
    /\ UNCHANGED coreVars

StopIOSAudioUnlock ==
    /\ host' = [StopIOSAudioUnlockOp(host) EXCEPT !.stopped = TRUE]
    /\ UNCHANGED coreVars

ResetIOSAudioUnlock ==
    /\ host' = [StopIOSAudioUnlockOp(host) EXCEPT
                    !.silentAudioElement = FALSE,
                    !.paused = TRUE,
                    !.isUnlocked = FALSE,
                    !.audioSessionConfigured = FALSE,
                    !.visibilityHandlerAttached = FALSE,
                    !.stopped = TRUE]
    /\ UNCHANGED coreVars

\* the document becomes hidden or visible and handleVisibilityChange runs,
\* when the listener is attached
UnlockVisibilityChange(hidden, allowed) ==
    /\ hidden # host.hidden
    /\ LET h == [host EXCEPT !.hidden = hidden]
       IN host' = IF ~h.visibilityHandlerAttached THEN h
                  ELSE IF ~h.ios \/ ~h.silentAudioElement \/ ~h.isUnlocked THEN h
                  ELSE IF h.hidden /\ h.paused THEN ElementPlay(h, FALSE, allowed)
                  ELSE h
    /\ UNCHANGED coreVars

\* platform: playback of the element starts; the promises in its list are
\* handed to a queued task
PlaybackStarts ==
    /\ ~host.paused /\ host.pending > 0
    /\ host' = [host EXCEPT !.pending = 0, !.resolving = @ + 1]
    /\ UNCHANGED coreVars

\* the queued task resolves its promises: .then(() => { isUnlocked = true })
PlayResolved ==
    /\ host.resolving > 0
    /\ host' = [host EXCEPT !.resolving = @ - 1, !.isUnlocked = TRUE]
    /\ UNCHANGED coreVars

\* platform: the OS interrupts the element (call, other media, backgrounding)
PlatformPauses ==
    /\ host.silentAudioElement /\ ~host.paused
    /\ host' = ElementPause(host)
    /\ UNCHANGED coreVars

NextUnlock ==
    \/ InitIOSAudio
    \/ \E allowed \in BOOLEAN : UnlockIOSAudio(allowed)
    \/ \E allowed \in BOOLEAN : KeepIOSAudioAlive(allowed)
    \/ StopIOSAudioUnlock
    \/ ResetIOSAudioUnlock
    \/ \E hidden \in BOOLEAN : \E allowed \in BOOLEAN :
          UnlockVisibilityChange(hidden, allowed)
    \/ PlaybackStarts
    \/ PlayResolved
    \/ PlatformPauses

SpecUnlock == InitUnlock /\ [][NextUnlock]_vars

\* togglePlay as the play button runs it, on the side of the silent element:
\* unlockIOSAudio() when it starts playback, stopIOSAudioUnlock() when it
\* stops it.  lastCall tells whether the call reached silentAudioElement.play().
TogglePlayUnlocks(allowed) ==
    /\ host.pending + host.resolving < MaxPlays
    /\ host' = IF ~ui.isPlaying THEN UnlockIOSAudioOp(host, allowed)
               ELSE [StopIOSAudioUnlockOp(host) EXCEPT !.stopped = TRUE]
    /\ ui' = [ui EXCEPT !.isPlaying = ~@]
    /\ lastCall' = [op |-> "togglePlay", starts |-> ~ui.isPlaying,
                    played |-> ~ui.isPlaying
                               /\ UnlockIOSAudioOp(host, TRUE).pending # host.pending]
    /\ TogglePlayGenerators
    /\ UNCHANGED storage

\* the keep-alive interval and the visibility listener run between the
\* toggles, the interval only while the playing flag is true
NextSession ==
    \/ InitIOSAudio
    \/ \E allowed \in BOOLEAN : TogglePlayUnlocks(allowed)
    \/ ui.isPlaying /\ \E allowed \in BOOLEAN : KeepIOSAudioAlive(allowed)
    \/ \E hidden \in BOOLEAN : \E allowed \in BOOLEAN :
          UnlockVisibilityChange(hidden, allowed)
    \/ PlaybackStarts
    \/ PlayResolved
    \/ PlatformPauses

SpecSession == InitUnlock /\ [][NextSession]_vars

---------------------------------------------------------------------------
(* mediaStreamBridge.ts: the audio element fed by the MediaStreamDestination.

   The play() promise awaited by startBridge is pending until playback
   starts and is rejected by a pause() that comes first; its continuation
   (the rest of the try block, or the catch block) runs as a later task and
   reads the module variable `bridge` as it is then.  The listeners of an
   element stay on it when destroyBridge drops it, and read `bridge` too. *)

\* how many rejected startBridge promises may wait for their catch block
MaxRejections == 2

BridgeInit(supported) ==
    [ module |-> "mediaStreamBridge",
      supported |-> supported,     \* isMediaStreamDestinationSupported
      bridge |-> FALSE,            \* bridge !== null
      isStarted |-> FALSE,         \* bridge.isStarted
      paused |-> TRUE,             \* bridge.audioElement.paused
      listening |-> FALSE,         \* visibilitychange listener attached
      visible |-> TRUE,            \* document.visibilityState === 'visible'
      playbackState |-> "none",    \* navigator.mediaSession.playbackState
      startPending |-> FALSE,      \* the awaited play() promise is pending
      startResolving |-> FALSE,    \* ... is resolved, continuation queued
      rejections |-> 0,            \* ... rejected, catch blocks queued
      pauseEvents |-> 0,           \* 'pause' events queued on the element
      staleEvents |-> 0,           \* ... queued on a destroyed element
      staleAnswered |-> "none",    \* what the last listener run for one did
      succeeded |-> FALSE,         \* the await of startBridge returned
      answered |-> "none" ]        \* what the last 'pause' listener run did

\* audioElement.play(); the 'play' listener sets the media-session state,
\* the caller's catch block leaves it at failState
BridgePlay(h, allowed, failState) ==
    IF allowed
    THEN [h EXCEPT !.paused = FALSE, !.playbackState = "playing"]
    ELSE [h EXCEPT !.playbackState = failState]

\* audioElement.pause(), by the module or by the platform
BridgePause(h) ==
    IF h.paused THEN h
    ELSE [h EXCEPT !.paused = TRUE,
                   !.startPending = FALSE,
                   !.rejections = IF h.startPending THEN @ + 1 ELSE @,
                   !.pauseEvents = 1]

InitBridge ==
    /\ \E supported \in BOOLEAN : host = BridgeInit(supported)
    /\ noise = NoiseConstruct
    /\ beat = BeatConstruct
    /\ ui = UiInit
    /\ created = FALSE
    /\ storage = StoredAtMount
    /\ lastCall = [op |-> "none"]

CreateMediaStreamBridge ==
    /\ host' = IF host.bridge THEN host
               ELSE IF ~host.supported THEN host
               ELSE [host EXCEPT !.bridge = TRUE, !.isStarted = FALSE,
                                 !.paused = TRUE, !.listening = TRUE]
    /\ UNCHANGED coreVars

\* (mutant) startBridge plays the element on every call
StartBridgeAgain(allowed) ==
    /\ host.rejections < MaxRejections
    /\ host' = IF ~host.bridge THEN host
               ELSE IF allowed
                    THEN [host EXCEPT !.isStarted = TRUE, !.paused = FALSE,
                                      !.playbackState = "playing",
                                      !.startPending = TRUE]
                    ELSE [host EXCEPT !.isStarted = TRUE, !.rejections = @ + 1]
    /\ UNCHANGED coreVars

\* startBridge up to its await
StartBridge(allowed) ==
    /\ host.rejections < MaxRejections
    /\ host' = IF ~host.bridge THEN host
               ELSE IF host.isStarted THEN host
               ELSE IF allowed
                    THEN [host EXCEPT !.isStarted = TRUE, !.paused = FALSE,
                                      !.playbackState = "playing",
                                      !.startPending = TRUE]
                    ELSE [host EXCEPT !.isStarted = TRUE, !.rejections = @ + 1]
    /\ UNCHANGED coreVars

\* playback starts: the awaited promise is resolved
BridgePlaybackStarts ==
    /\ host.startPending /\ ~host.paused
    /\ host' = [host EXCEPT !.startPending = FALSE, !.startResolving = TRUE]
    /\ UNCHANGED coreVars

\* startBridge after its await: the rest of the try block
StartBridgeResumes ==
    /\ host.startResolving
    /\ host' = [host EXCEPT !.startResolving = FALSE, !.succeeded = TRUE]
    /\ UNCHANGED coreVars

\* startBridge after its await: the catch block, on the bridge of now
StartBridgeCatches ==
    /\ host.rejections > 0
    /\ host' = [host EXCEPT !.rejections = @ - 1,
                             !.isStarted = IF host.bridge THEN FALSE ELSE @]
    /\ UNCHANGED coreVars

\* the OS pauses the element
BridgePlatformPauses ==
    /\ host.bridge /\ ~host.paused
    /\ host' = BridgePause(host)
    /\ UNCHANGED coreVars

\* the 'pause' event reaches the listener
BridgePauseEvent(allowed) ==
    /\ host.pauseEvents > 0
    /\ host' = IF host.bridge /\ host.isStarted
               THEN [BridgePlay(host, allowed, "paused") EXCEPT
                        !.pauseEvents = 0, !.answered = "play"]
               ELSE [host EXCEPT !.pauseEvents = 0, !.answered = "ignored"]
    /\ UNCHANGED coreVars

\* the document becomes hidden or visible and handleVisibilityChange runs,
\* when the listener is attached
BridgeVisibilityChange(visible, allowed) ==
    /\ visible # host.visible
    /\ LET h == [host EXCEPT !.visible = visible]
       IN host' = IF ~h.listening THEN h
                  ELSE IF ~h.bridge \/ ~h.isStarted THEN h
                  ELSE IF h.visible /\ h.paused
                       THEN BridgePlay(h, allowed, h.playbackState)
                  ELSE h
    /\ UNCHANGED coreVars

DestroyBridge ==
    /\ host.rejections < MaxRejections
    /\ host' = IF ~host.bridge THEN host
               ELSE [BridgePause(host) EXCEPT
                        !.staleEvents = IF ~host.paused \/ host.pauseEvents > 0
                                        THEN 1 ELSE @,
                        !.listening = FALSE, !.bridge = FALSE,
                        !.isStarted = FALSE, !.paused = TRUE,
                        !.startResolving = FALSE, !.pauseEvents = 0,
                        !.succeeded = FALSE, !.answered = "none"]
    /\ UNCHANGED coreVars

\* a 'pause' event of a destroyed element reaches the listener it still
\* carries; the play() is on that element, its catch block sets the state
StalePauseEvent(allowed) ==
    /\ host.staleEvents > 0
    /\ host' = IF host.bridge /\ host.isStarted
               THEN [host EXCEPT !.staleEvents = 0, !.staleAnswered = "play",
                                 !.playbackState = IF allowed THEN "playing"
                                                   ELSE "paused"]
               ELSE [host EXCEPT !.staleEvents = 0, !.staleAnswered = "ignored"]
    /\ UNCHANGED coreVars

\* the calls by which the module itself acts on a live bridge
BridgeFunctions ==
    \/ CreateMediaStreamBridge
    \/ \E allowed \in BOOLEAN : StartBridge(allowed)
    \/ StartBridgeResumes
    \/ StartBridgeCatches
    \/ \E allowed \in BOOLEAN : BridgePauseEvent(allowed)
    \/ \E visible \in BOOLEAN : \E allowed \in BOOLEAN :
          BridgeVisibilityChange(visible, allowed)

NextBridge ==
    \/ BridgeFunctions
    \/ DestroyBridge
    \/ \E allowed \in BOOLEAN : StalePauseEvent(allowed)
    \/ BridgePlaybackStarts
    \/ BridgePlatformPauses

SpecBridge == InitBridge /\ [][NextBridge]_vars

---------------------------------------------------------------------------
(* App: the playing flag between handlers, renders and effects.

   A togglePlay closure belongs to one render and holds that render's
   isPlaying.  setIsPlaying queues an update; a render applies the queued
   updates in order and commits; the passive effects of a commit (the two
   ref refreshes, the volume policy, the keep-alive timer) run together,
   after the commit and before the next render.  The play button calls the
   closure of the committed render, the media-session handlers the closure
   held by togglePlayRef.  What the closure does inside unlockIOSAudio.ts
   and the bridge module is followed in SpecUnlock and SpecBridge. *)

\* how many setIsPlaying updates may wait for a render
MaxPending == 2

\* how many intervals the page creates
MaxIntervals == 3

Origins == {"button", "play", "pause", "stop"}

PlaybackInit ==
    [ module |-> "App",
      mounted |-> TRUE,
      pending |-> <<>>,            \* queued setIsPlaying updates
      isPlayingRef |-> FALSE,      \* isPlayingRef.current
      togglePlayRef |-> FALSE,     \* isPlaying held by togglePlayRef.current
      effectsPending |-> FALSE,    \* a commit whose effects have not run
      keepAliveInterval |-> 0,     \* the id the effect cleanup holds, 0: none
      timers |-> {},               \* the ids of the live intervals
      nextTimer |-> 1,             \* the id setInterval returns next
      keepAlive |-> "none",        \* where keepIOSAudioAlive was last called from
      changes |-> {} ]             \* what each update of the last render did

\* (mutant) togglePlay queues an updater function
TogglePlayFlips(h, isPlaying, origin) ==
    [h EXCEPT !.pending = Append(@, [kind |-> "flip", value |-> ~isPlaying,
                                     origin |-> origin])]

\* const newPlayingState = !isPlaying; setIsPlaying(newPlayingState)
TogglePlaySets(h, isPlaying, origin) ==
    [h EXCEPT !.pending = Append(@, [kind |-> "set", value |-> ~isPlaying,
                                     origin |-> origin])]

\* one queued update applied to the state
Applied(state, update) ==
    IF update.kind = "set" THEN update.value ELSE ~state

RECURSIVE Reduce(_, _)
Reduce(state, updates) ==
    IF updates = <<>> THEN state
    ELSE Reduce(Applied(state, Head(updates)), Tail(updates))

RECURSIVE Changes(_, _)
Changes(state, updates) ==
    IF updates = <<>> THEN {}
    ELSE LET to == Applied(state, Head(updates))
         IN {[origin |-> Head(updates).origin, from |-> state, to |-> to]}
            \cup Changes(to, Tail(updates))

\* (mutant) the effect returns no cleanup
KeepAliveEffectLeaks(h, isPlaying) ==
    IF ~isPlaying THEN h
    ELSE [h EXCEPT !.keepAlive = "immediate",
                   !.timers = @ \cup {h.nextTimer},
                   !.keepAliveInterval = h.nextTimer,
                   !.nextTimer = @ + 1]

\* the keep-alive effect on a change of isPlaying: the cleanup the last run
\* returned, then the body
KeepAliveEffect(h, isPlaying) ==
    LET cleaned == [h EXCEPT !.timers = @ \ {h.keepAliveInterval},
                             !.keepAliveInterval = 0]
    IN IF ~isPlaying THEN cleaned
       ELSE [cleaned EXCEPT !.keepAlive = "immediate",
                            !.timers = @ \cup {h.nextTimer},
                            !.keepAliveInterval = h.nextTimer,
                            !.nextTimer = @ + 1]

InitPlayback ==
    /\ noise = NoiseConstruct
    /\ beat = BeatConstruct
    /\ ui = UiInit
    /\ created = FALSE
    /\ storage = StoredAtMount
    /\ lastCall = [op |-> "none"]
    /\ host = PlaybackInit

\* a togglePlay closure that holds isPlaying runs
RunTogglePlay(isPlaying, origin) ==
    /\ Len(host.pending) < MaxPending
    /\ host' = TogglePlaySets(host, isPlaying, origin)
    /\ created' = TRUE
    /\ IF created
       THEN UNCHANGED <<noise, beat>>
       ELSE \E bridge \in BOOLEAN :
              LET dests == {"destination"} \cup (IF bridge THEN {"bridge"} ELSE {})
                  initModFreq == IF ui.isFlipped THEN ui.neuralFreq ELSE 0
                  initPulse == IF ui.isFlipped THEN ui.neuralPulseDepth ELSE 0
                  initPan == IF ui.isFlipped THEN ui.neuralPanDepth ELSE 0
                  noiseGen == [NoiseConstruct EXCEPT !.dests = dests]
                  beatGen == [BeatConstruct EXCEPT !.dests = dests]
              IN /\ noise' = NoiseStart(noiseGen, <<initModFreq>>, <<initPulse>>,
                                        <<initPan>>)
                 /\ beat' = BeatStart(beatGen, <<ui.baseFreq>>, <<ui.beatFreq>>)
    /\ UNCHANGED <<ui, storage, lastCall>>

\* <PlayButton onClick={togglePlay} />
ClickPlayButton ==
    /\ host.mounted
    /\ RunTogglePlay(ui.isPlaying, "button")

\* the handlers given to setupMediaSessionActions; 'stop' runs onPause
MediaSessionAction(action) ==
    IF action = "play"
    THEN IF ~host.isPlayingRef
         THEN RunTogglePlay(host.togglePlayRef, action)
         ELSE UNCHANGED vars
    ELSE IF host.isPlayingRef
         THEN RunTogglePlay(host.togglePlayRef, action)
         ELSE UNCHANGED vars

\* React renders with the queued updates and commits
Render ==
    /\ host.mounted /\ ~host.effectsPending
    /\ host.pending # <<>>
    /\ LET isPlaying == Reduce(ui.isPlaying, host.pending)
       IN /\ ui' = [ui EXCEPT !.isPlaying = isPlaying]
          /\ host' = [host EXCEPT
                         !.pending = <<>>,
                         !.changes = Changes(ui.isPlaying, host.pending),
                         !.effectsPending = (isPlaying # ui.isPlaying)]
    /\ UNCHANGED <<noise, beat, created, storage, lastCall>>

\* the effects whose dependencies hold isPlaying, after a commit that
\* changed it
FlushEffects ==
    /\ host.effectsPending
    /\ ui.isPlaying => host.nextTimer <= MaxIntervals
    /\ host' = [KeepAliveEffect(host, ui.isPlaying) EXCEPT
                    !.isPlayingRef = ui.isPlaying,
                    !.togglePlayRef = ui.isPlaying,
                    !.effectsPending = FALSE]
    /\ noise' = EffectNoise(noise, created, [ui EXCEPT !.isPlaying = ~@], ui)
    /\ beat' = EffectBeat(beat, created, [ui EXCEPT !.isPlaying = ~@], ui)
    /\ UNCHANGED <<ui, created, storage, lastCall>>

\* setInterval(() => { keepIOSAudioAlive() }, 5000) fires
KeepAliveTick ==
    /\ host.timers # {}
    /\ host' = [host EXCEPT !.keepAlive = "tick"]
    /\ UNCHANGED coreVars

\* the component unmounts: the cleanups of the effects run
Unmount ==
    /\ host.mounted
    /\ host' = [host EXCEPT !.mounted = FALSE,
                            !.effectsPending = FALSE,
                            !.timers = @ \ {host.keepAliveInterval},
                            !.keepAliveInterval = 0]
    /\ UNCHANGED coreVars

NextPlayback ==
    \/ ClickPlayButton
    \/ \E action \in Origins \ {"button"} : MediaSessionAction(action)
    \/ Render
    \/ FlushEffects
    \/ KeepAliveTick
    \/ Unmount

SpecPlayback == InitPlayback /\ [][NextPlayback]_vars

---------------------------------------------------------------------------
(* The first togglePlay as a task of the event loop.

   The handler is the list of the platform calls it makes, in program
   order, each marked with whether the code awaits its result.  A handler
   runs until it returns or awaits; only then may a queued continuation
   run.  An async callee (playBridge) runs inside its caller
   up to its own await, and its remainder is a continuation. *)

\* (mutant) unlockIOSAudio awaits the silent element
TogglePlayAwaitsUnlock ==
    << [op |-> "silentAudioElement.play", awaited |-> TRUE],
       [op |-> "new AudioContext", awaited |-> FALSE],
       [op |-> "source.start", awaited |-> FALSE],
       [op |-> "pulseOsc.start", awaited |-> FALSE],
       [op |-> "panOsc.start", awaited |-> FALSE],
       [op |-> "leftOsc.start", awaited |-> FALSE],
       [op |-> "rightOsc.start", awaited |-> FALSE],
       [op |-> "ctx.resume", awaited |-> FALSE],
       [op |-> "setIsPlaying", awaited |-> FALSE],
       [op |-> "bridge.audioElement.play", awaited |-> FALSE] >>

\* togglePlay with isPlaying false and no AudioContext yet
TogglePlayCalls ==
    << [op |-> "silentAudioElement.play", awaited |-> FALSE],
       [op |-> "new AudioContext", awaited |-> FALSE],
       [op |-> "source.start", awaited |-> FALSE],
       [op |-> "pulseOsc.start", awaited |-> FALSE],
       [op |-> "panOsc.start", awaited |-> FALSE],
       [op |-> "leftOsc.start", awaited |-> FALSE],
       [op |-> "rightOsc.start", awaited |-> FALSE],
       [op |-> "ctx.resume", awaited |-> FALSE],
       [op |-> "setIsPlaying", awaited |-> FALSE],
       [op |-> "bridge.audioElement.play", awaited |-> FALSE] >>

\* the calls that begin producing samples
Producing ==
    {"silentAudioElement.play", "source.start", "pulseOsc.start", "panOsc.start",
     "leftOsc.start", "rightOsc.start"}

\* what may wait for a promise: the .then of unlockIOSAudio, the rest of
\* playBridge after its await, and a handler that awaits
Continuations == {"unlockIOSAudio.then", "playBridge", "togglePlay"}

\* the continuation a call leaves behind when its promise is not awaited
Continuation(op) ==
    CASE op = "silentAudioElement.play" -> {"unlockIOSAudio.then"}
      [] op = "bridge.audioElement.play" -> {"playBridge"}
      [] OTHER -> {}

GestureInit(ios, suspended, bridge) ==
    [ module |-> "togglePlay",
      ios |-> ios,                 \* isIOS()
      suspended |-> suspended,     \* a new AudioContext starts 'suspended'
      bridge |-> bridge,           \* createMediaStreamBridge returned a node
      pc |-> 0,                    \* 0: before the gesture; then the next call
      running |-> FALSE,           \* the handler is on the stack
      yielded |-> FALSE,           \* a task boundary lies behind the handler
      promises |-> {},             \* continuations of unsettled promises
      tasks |-> {},                \* continuations queued on the event loop
      issued |-> {} ]              \* the calls made, with yielded at the call

\* whether the handler makes the call at all
Taken(h, op) ==
    CASE op = "silentAudioElement.play" -> h.ios
      [] op = "ctx.resume" -> h.suspended
      [] op = "bridge.audioElement.play" -> h.bridge
      [] OTHER -> TRUE

\* the handler makes its next call
Call(h, stmt) ==
    LET made == [h EXCEPT !.issued = @ \cup {[op |-> stmt.op, yielded |-> h.yielded,
                                              awaited |-> stmt.awaited]},
                          !.promises = IF stmt.awaited THEN @
                                       ELSE @ \cup Continuation(stmt.op),
                          !.pc = @ + 1]
    IN IF ~Taken(h, stmt.op) THEN [h EXCEPT !.pc = @ + 1]
       ELSE IF stmt.awaited
            THEN [made EXCEPT !.running = FALSE, !.promises = @ \cup {"togglePlay"}]
       ELSE made

InitGesture ==
    /\ \E ios \in BOOLEAN : \E suspended \in BOOLEAN : \E bridge \in BOOLEAN :
          host = GestureInit(ios, suspended, bridge)
    /\ noise = NoiseConstruct
    /\ beat = BeatConstruct
    /\ ui = UiInit
    /\ created = FALSE
    /\ storage = StoredAtMount
    /\ lastCall = [op |-> "none"]

\* the click reaches the handler
Gesture ==
    /\ host.pc = 0
    /\ host' = [host EXCEPT !.pc = 1, !.running = TRUE]
    /\ UNCHANGED coreVars

TogglePlayStep ==
    /\ host.running /\ host.pc \in 1..Len(TogglePlayCalls)
    /\ host' = Call(host, TogglePlayCalls[host.pc])
    /\ UNCHANGED coreVars

TogglePlayReturns ==
    /\ host.running /\ host.pc = Len(TogglePlayCalls) + 1
    /\ host' = [host EXCEPT !.running = FALSE, !.pc = @ + 1]
    /\ UNCHANGED coreVars

\* the platform settles a promise: its continuation is queued
PromiseSettles(p) ==
    /\ p \in host.promises
    /\ host' = [host EXCEPT !.promises = @ \ {p}, !.tasks = @ \cup {p}]
    /\ UNCHANGED coreVars

\* the event loop runs a queued continuation; that of a handler which
\* awaited puts the handler back on the stack
ContinuationRuns(p) ==
    /\ ~host.running
    /\ p \in host.tasks
    /\ host' = [host EXCEPT !.tasks = @ \ {p},
                            !.running = (p = "togglePlay"),
                            !.yielded = @ \/ host.pc \in 1..Len(TogglePlayCalls)]
    /\ UNCHANGED coreVars

NextGesture ==
    \/ Gesture
    \/ TogglePlayStep
    \/ TogglePlayReturns
    \/ \E p \in Continuations : PromiseSettles(p)
    \/ \E p \in Continuations : ContinuationRuns(p)

SpecGesture == InitGesture /\ [][NextGesture]_vars

---------------------------------------------------------------------------
(* The playBridge / stopBridge bridge that App.tsx imports, driven by
   togglePlay.

   The element's events and the rejections of play() promises are tasks of
   one queue, handled in the order they were queued.  A play() inside a user
   gesture is let through; outside one (a media-session action, the 'pause'
   listener) the platform may refuse it, and the promise is then rejected
   before the caller's task ends. *)

\* how many element tasks may wait
MaxEvents == 3

PlayBridgeInit(supported) ==
    [ module |-> "playBridge",
      supported |-> supported,     \* isMediaStreamDestinationSupported
      bridge |-> FALSE,            \* bridge !== null
      isPlaying |-> FALSE,         \* bridge.isPlaying
      paused |-> TRUE,             \* bridge.audioElement.paused
      playbackState |-> "none",    \* navigator.mediaSession.playbackState
      resuming |-> FALSE,          \* a play() of the 'pause' listener is pending
      events |-> <<>>,             \* queued: "play", "pause", "rejected"
      answered |-> "none" ]        \* what the last 'pause' listener run did

\* audioElement.play() let through by the platform
PlayElement(h) ==
    IF h.paused THEN [h EXCEPT !.paused = FALSE, !.events = Append(@, "play")]
    ELSE h

\* playBridge up to its await; its catch block only logs
PlayBridge(h, allowed) ==
    IF ~h.bridge THEN h
    ELSE IF allowed THEN PlayElement([h EXCEPT !.isPlaying = TRUE])
    ELSE [h EXCEPT !.isPlaying = TRUE]

StopBridge(h) ==
    IF ~h.bridge THEN h
    ELSE IF h.paused THEN [h EXCEPT !.isPlaying = FALSE]
    ELSE [h EXCEPT !.isPlaying = FALSE, !.paused = TRUE, !.resuming = FALSE,
                   !.events = @ \o <<"pause">>
                                \o (IF h.resuming THEN <<"rejected">> ELSE <<>>)]

InitPlayBridge ==
    /\ \E supported \in BOOLEAN : host = PlayBridgeInit(supported)
    /\ noise = NoiseConstruct
    /\ beat = BeatConstruct
    /\ ui = UiInit
    /\ created = FALSE
    /\ storage = StoredAtMount
    /\ lastCall = [op |-> "none"]

\* togglePlay on the side of the bridge and the media session; gesture: it
\* runs from the play button, not from a media-session action
TogglePlayBridge(gesture, allowed) ==
    /\ gesture => allowed
    /\ Len(host.events) < MaxEvents
    /\ LET made == IF ~created /\ host.supported
                   THEN [host EXCEPT !.bridge = TRUE] ELSE host
       IN host' = IF ui.isPlaying
                  THEN [StopBridge(made) EXCEPT !.playbackState = "paused"]
                  ELSE PlayBridge([made EXCEPT !.playbackState = "playing"], allowed)
    /\ ui' = [ui EXCEPT !.isPlaying = ~@]
    /\ TogglePlayGenerators
    /\ UNCHANGED <<storage, lastCall>>

\* the next queued task of the element: a listener or a catch block
ElementTask(allowed) ==
    /\ host.events # <<>>
    /\ LET h == [host EXCEPT !.events = Tail(@)]
           e == Head(host.events)
       IN host' =
            IF e = "play" THEN [h EXCEPT !.playbackState = "playing"]
            ELSE IF e = "rejected" THEN [h EXCEPT !.playbackState = "paused"]
            ELSE IF ~h.isPlaying
                 THEN [h EXCEPT !.playbackState = "paused", !.answered = "paused"]
            ELSE IF allowed
                 THEN [PlayElement(h) EXCEPT !.resuming = TRUE, !.answered = "play"]
            ELSE [h EXCEPT !.playbackState = "paused", !.answered = "play"]
    /\ UNCHANGED coreVars

\* playback starts: the pending play() of the listener is resolved
ResumeSettles ==
    /\ host.resuming /\ ~host.paused
    /\ host' = [host EXCEPT !.resuming = FALSE]
    /\ UNCHANGED coreVars

NextPlayBridge ==
    \/ \E gesture \in BOOLEAN : \E allowed \in BOOLEAN :
          TogglePlayBridge(gesture, allowed)
    \/ \E allowed \in BOOLEAN : ElementTask(allowed)
    \/ ResumeSettles

SpecPlayBridge == InitPlayBridge /\ [][NextPlayBridge]_vars

---------------------------------------------------------------------------
(* App: the effect that resumes a suspended AudioContext during playback.

   The effect depends on isPlaying; its run after a commit removes what the
   run before installed.  The platform suspends the context when it likes
   and does not always dispatch 'statechange'; resume() is a request the
   platform grants later or not at all. *)

AutoResumeInit ==
    [ module |-> "autoResume",
      state |-> "none",            \* audioContextRef.current?.state
      effectsPending |-> FALSE,    \* a commit whose effects have not run
      installed |-> FALSE,         \* the listener and the poll are in place
      visible |-> TRUE,            \* document.visibilityState === 'visible'
      stateChange |-> FALSE,       \* a 'statechange' event is queued
      requested |-> "none" ]       \* who asked for resume() since the
                                   \* context was last suspended

InitAutoResume ==
    /\ host = AutoResumeInit
    /\ noise = NoiseConstruct
    /\ beat = BeatConstruct
    /\ ui = UiInit
    /\ created = FALSE
    /\ storage = StoredAtMount
    /\ lastCall = [op |-> "none"]

\* togglePlay on the side of the AudioContext, with the commit that follows;
\* initial: the state a new AudioContext starts in
TogglePlayContext(initial) ==
    /\ ~host.effectsPending
    /\ LET state == IF host.state = "none" THEN initial ELSE host.state
       IN host' = [host EXCEPT !.state = state,
                               !.requested = IF state = "suspended"
                                             THEN "togglePlay" ELSE @,
                               !.effectsPending = TRUE]
    /\ ui' = [ui EXCEPT !.isPlaying = ~@]
    /\ TogglePlayGenerators
    /\ UNCHANGED <<storage, lastCall>>

\* the effect after a commit that changed isPlaying: the cleanup of the last
\* run, then the body
AutoResumeEffect ==
    /\ host.effectsPending
    /\ host' = IF host.state = "none" \/ ~ui.isPlaying
               THEN [host EXCEPT !.effectsPending = FALSE, !.installed = FALSE]
               ELSE [host EXCEPT !.effectsPending = FALSE, !.installed = TRUE,
                                 !.requested = IF host.state = "suspended"
                                               THEN "effect" ELSE @]
    /\ UNCHANGED coreVars

\* the platform suspends the context, with or without a 'statechange' event
ContextSuspends(event) ==
    /\ host.state = "running"
    /\ host' = [host EXCEPT !.state = "suspended", !.requested = "none",
                            !.stateChange = event]
    /\ UNCHANGED coreVars

\* the platform grants a resume() request
ContextResumes ==
    /\ host.state = "suspended" /\ host.requested # "none"
    /\ host' = [host EXCEPT !.state = "running", !.requested = "none"]
    /\ UNCHANGED coreVars

\* handleStateChange, when the listener is on the context
StateChangeEvent ==
    /\ host.stateChange
    /\ host' = IF host.installed /\ host.state = "suspended"
               THEN [host EXCEPT !.stateChange = FALSE, !.requested = "listener"]
               ELSE [host EXCEPT !.stateChange = FALSE]
    /\ UNCHANGED coreVars

\* handleVisibilityChange of the App, on the side of the AudioContext; the
\* effect that installs it depends on isPlaying too, and its closure holds
\* isPlaying true exactly when the listener and the poll are in place
ContextVisibilityChange(visible) ==
    /\ visible # host.visible
    /\ host' = IF visible /\ host.installed /\ host.state = "suspended"
               THEN [host EXCEPT !.visible = visible, !.requested = "visibility"]
               ELSE [host EXCEPT !.visible = visible]
    /\ UNCHANGED coreVars

\* (mutant) the effect installs no poll
PollTickIdle ==
    /\ host.installed
    /\ UNCHANGED vars

\* the callback of pollInterval
PollTick ==
    /\ host.installed
    /\ host' = IF host.state = "suspended"
               THEN [host EXCEPT !.requested = "poll"]
               ELSE host
    /\ UNCHANGED coreVars

NextAutoResume ==
    \/ \E initial \in {"suspended", "running"} : TogglePlayContext(initial)
    \/ AutoResumeEffect
    \/ \E event \in BOOLEAN : ContextSuspends(event)
    \/ ContextResumes
    \/ StateChangeEvent
    \/ \E visible \in BOOLEAN : ContextVisibilityChange(visible)
    \/ PollTick

\* React runs the effects of a commit, and a live interval keeps firing
SpecAutoResume ==
    /\ InitAutoResume /\ [][NextAutoResume]_vars
    /\ WF_vars(AutoResumeEffect) /\ WF_vars(PollTick)

----------------------------------------------------------------------------
(* App.togglePlay when a platform call inside the first start() throws *)

\* togglePlay() in which the platform call `fault' of noiseGen.start or
\* beatGen.start throws.  The context ref and both generator refs are
\* assigned and both connects are done before the first start(); the
\* exception leaves the handler before setIsPlaying, so no state changes and
\* no effect runs.  A later togglePlay finds the context ref set and calls
\* no start().
TogglePlayThrows(fault) ==
    /\ created => fault = NoFault
    /\ IF fault = NoFault
       THEN /\ ui' = [ui EXCEPT !.isPlaying = ~ui.isPlaying]
            /\ TogglePlayGenerators
       ELSE \E bridge \in BOOLEAN :
              LET dests == {"destination"} \cup (IF bridge THEN {"bridge"} ELSE {})
                  initModFreq == IF ui.isFlipped THEN ui.neuralFreq ELSE 0
                  initPulse == IF ui.isFlipped THEN ui.neuralPulseDepth ELSE 0
                  initPan == IF ui.isFlipped THEN ui.neuralPanDepth ELSE 0
                  noiseGen == [NoiseConstruct EXCEPT !.dests = dests]
                  beatGen == [BeatConstruct EXCEPT !.dests = dests]
              IN /\ created' = TRUE
                 /\ ui' = ui
                 /\ IF fault \in NoiseFaults
                    THEN /\ noise' = NoiseStartThrows(noiseGen, <<initModFreq>>,
                                                      <<initPulse>>, <<initPan>>, fault)
                         /\ beat' = beatGen
                    ELSE /\ noise' = NoiseStart(noiseGen, <<initModFreq>>,
                                                <<initPulse>>, <<initPan>>)
                         /\ beat' = BeatStartThrows(beatGen, <<ui.baseFreq>>,
                                                    <<ui.beatFreq>>, fault)
    /\ lastCall' = [op |-> "togglePlay", threw |-> fault # NoFault]
    /\ UNCHANGED <<storage, host>>

NextMount ==
    \/ \E fault \in {NoFault} \cup NoiseFaults \cup BeatFaults : TogglePlayThrows(fault)
    \/ \E flipTo \in BOOLEAN : HandleFlip(flipTo)

SpecMount == Init /\ [][NextMount]_vars

----------------------------------------------------------------------------
(* wakeLock.ts: the screen wake lock.
   Every call of navigator.wakeLock.request gets the next number; the state
   of request k is "pending" while its promise is unsettled, "denied" when it
   was rejected, and for a granted sentinel "held", then "releasing" once
   release() was called on it, then "released" when its 'release' event has
   been dispatched.  wakeLock holds the number of the recorded sentinel,
   0 for null. *)

\* how many requests are made
MaxSentinels == 3

WakeLockInit(supported) ==
    [ module |-> "wakeLock",
      supported |-> supported,          \* 'wakeLock' in navigator
      wakeLock |-> 0,
      sentinels |-> << >> ]

IsWakeLockActive(h) == h.wakeLock # 0

\* the granted sentinels the platform still holds and nobody asked to release
HeldSentinels(h) == {k \in DOMAIN h.sentinels : h.sentinels[k] = "held"}

InitWakeLock ==
    /\ noise = NoiseConstruct
    /\ beat = BeatConstruct
    /\ ui = UiInit
    /\ created = FALSE
    /\ storage = StoredAtMount
    /\ lastCall = [op |-> "none"]
    /\ \E supported \in BOOLEAN : host = WakeLockInit(supported)

\* requestWakeLock() up to its await
RequestWakeLock ==
    /\ Len(host.sentinels) < MaxSentinels
    /\ host' = IF host.supported
               THEN [host EXCEPT !.sentinels = Append(@, "pending")]
               ELSE host
    /\ lastCall' = [op |-> "requestWakeLock", requested |-> host.supported]
    /\ UNCHANGED <<noise, beat, ui, created, storage>>

\* the promise of the oldest pending request settles and requestWakeLock
\* resumes: on a grant it records the sentinel and adds the 'release'
\* listener, on a rejection its catch block writes null
RequestSettles(granted) ==
    /\ \E k \in DOMAIN host.sentinels :
          /\ host.sentinels[k] = "pending"
          /\ \A j \in 1..(k - 1) : host.sentinels[j] # "pending"
          /\ host' = IF granted
                     THEN [host EXCEPT !.sentinels[k] = "held", !.wakeLock = k]
                     ELSE [host EXCEPT !.sentinels[k] = "denied", !.wakeLock = 0]
    /\ lastCall' = [op |-> "settle", requested |-> granted]
    /\ UNCHANGED <<noise, beat, ui, created, storage>>

\* the 'release' event of sentinel k, after release() or when the platform
\* takes the lock back (the page is hidden, the screen is locked): its
\* listener writes null to the module variable
ReleaseEvent(k) ==
    /\ k \in DOMAIN host.sentinels
    /\ host.sentinels[k] \in {"held", "releasing"}
    /\ host' = [host EXCEPT !.sentinels[k] = "released", !.wakeLock = 0]
    /\ lastCall' = [op |-> "release event", requested |-> FALSE]
    /\ UNCHANGED <<noise, beat, ui, created, storage>>

ReleaseWakeLock ==
    /\ host' = IF host.wakeLock # 0
               THEN [host EXCEPT !.sentinels[host.wakeLock] = "releasing",
                                 !.wakeLock = 0]
               ELSE host
    /\ lastCall' = [op |-> "releaseWakeLock", requested |-> FALSE]
    /\ UNCHANGED <<noise, beat, ui, created, storage>>

\* reacquireWakeLockIfNeeded(): requestWakeLock() when nothing is recorded or
\* the recorded sentinel is released, else true
ReacquireWakeLockIfNeeded ==
    LET needed == \/ host.wakeLock = 0
                  \/ host.sentinels[host.wakeLock] = "released"
    IN /\ (host.supported /\ needed) => Len(host.sentinels) < MaxSentinels
       /\ host' = IF host.supported /\ needed
                  THEN [host EXCEPT !.sentinels = Append(@, "pending")]
                  ELSE host
       /\ lastCall' = [op |-> "reacquireWakeLockIfNeeded",
                       requested |-> host.supported /\ needed]
       /\ UNCHANGED <<noise, beat, ui, created, storage>>

NextWakeLock ==
    \/ RequestWakeLock
    \/ \E granted \in BOOLEAN : RequestSettles(granted)
    \/ \E k \in 1..MaxSentinels : ReleaseEvent(k)
    \/ ReleaseWakeLock
    \/ ReacquireWakeLockIfNeeded

SpecWakeLock == InitWakeLock /\ [][NextWakeLock]_vars

---------------------------------------------------------------------------
(* BrainWaveDisplay: the band label shown for a frequency *)

\* upper end of the beat-frequency and pulse-frequency sliders, in Hz
MaxSliderHz == 40

\* frequencies in hundredths of a Hz: every whole Hz of the slider range, the
\* value just below it (what a loaded preset may hold) and one step above it
BrainWaveFreqs == {h * One + d : h \in 0..MaxSliderHz, d \in {-1, 0, 10}}

\* (mutant) the thresholds are compared with <=
getBrainWaveNameInclusive(freq) ==
    IF freq <= 4 * One THEN "Delta (Deep Sleep)"
    ELSE IF freq <= 8 * One THEN "Theta (Meditation/Drowsiness)"
    ELSE IF freq <= 13 * One THEN "Alpha (Relaxation)"
    ELSE IF freq <= 30 * One THEN "Beta (Active Thinking)"
    ELSE "Gamma (High Focus)"

getBrainWaveName(freq) ==
    IF freq < 4 * One THEN "Delta (Deep Sleep)"
    ELSE IF freq < 8 * One THEN "Theta (Meditation/Drowsiness)"
    ELSE IF freq < 13 * One THEN "Alpha (Relaxation)"
    ELSE IF freq < 30 * One THEN "Beta (Active Thinking)"
    ELSE "Gamma (High Focus)"

InitBrainWave ==
    /\ \E f \in BrainWaveFreqs : host = [module |-> "BrainWaveDisplay", freq |-> f, label |-> ""]
    /\ noise = NoiseConstruct
    /\ beat = BeatConstruct
    /\ ui = UiInit
    /\ created = FALSE
    /\ storage = StoredAtMount
    /\ lastCall = [op |-> "none"]

\* the component renders the label of its freq prop
BrainWaveDisplay ==
    /\ host' = [host EXCEPT !.label = getBrainWaveName(host.freq)]
    /\ UNCHANGED <<noise, beat, ui, created, storage, lastCall>>

\* the parent passes another frequency
BrainWaveProps(freq) ==
    /\ host' = [host EXCEPT !.freq = freq, !.label = ""]
    /\ UNCHANGED <<noise, beat, ui, created, storage, lastCall>>

NextBrainWave ==
    \/ host.label = "" /\ BrainWaveDisplay
    \/ host.label # "" /\ \E f \in BrainWaveFreqs : BrainWaveProps(f)

SpecBrainWave == InitBrainWave /\ [][NextBrainWave]_vars

---------------------------------------------------------------------------
(* The generators when a platform call inside start() may throw *)

ThrowingNoiseStart(initialFreq, initialPulseDepth, initialPanDepth, fault) ==
    /\ noise.node # 0 \/ noise.made < MaxStarts
    /\ noise.node # 0 => fault = NoFault
    /\ noise' = NoiseStartThrows(noise, initialFreq, initialPulseDepth,
                                 initialPanDepth, fault)
    /\ lastCall' = [gen |-> "noise", op |-> "start", threw |-> fault # NoFault]
    /\ UNCHANGED <<beat, ui, created, storage, host>>

ThrowingBeatStart(initialBaseFreq, initialBeatFreq, fault) ==
    /\ beat.leftOsc # 0 \/ beat.rightOsc # 0 \/ beat.made < MaxStarts
    /\ (beat.leftOsc # 0 \/ beat.rightOsc # 0) => fault = NoFault
    /\ beat' = BeatStartThrows(beat, initialBaseFreq, initialBeatFreq, fault)
    /\ lastCall' = [gen |-> "beat", op |-> "start", threw |-> fault # NoFault]
    /\ UNCHANGED <<noise, ui, created, storage, host>>

NextThrowing ==
    \/ /\ lastCall.gen = "noise"
       /\ \/ \E f \in Opt(FreqArgs) : \E p \in Opt(DepthArgs) : \E q \in Opt(PanDepthArgs) :
                \E fault \in NoiseFaults \cup {NoFault} : ThrowingNoiseStart(f, p, q, fault)
          \/ \E f \in FreqArgs : \E p \in DepthArgs : \E q \in PanDepthArgs :
                CallNoiseSetModulation(f, p, q)
          \/ CallNoiseStop
    \/ /\ lastCall.gen = "beat"
       /\ \/ \E base \in Opt(BaseArgs) : \E beatF \in Opt(BeatArgs) :
                \E fault \in BeatFaults \cup {NoFault} : ThrowingBeatStart(base, beatF, fault)
          \/ \E base \in BaseArgs : \E beatF \in BeatArgs : CallBeatSetFrequencies(base, beatF)
          \/ CallBeatStop

SpecThrowing == InitDriven /\ [][NextThrowing]_vars

---------------------------------------------------------------------------
(* Properties of the mode/mix policy (specification Spec) *)

\* clamp(d, 0, 1) as the specification states it
Clamp01(d) == IF d < 0 THEN 0 ELSE IF d > One THEN One ELSE d

\* C1: whenever the generators exist and the mode is Classic, the noise
\* generator's stored modulation (modulationFreq, pulseDepth, panDepth) is
\* (0,0,0), whatever the stored neural parameters are.
C1_ClassicModulationZero ==
    (created /\ ~ui.isFlipped) =>
        /\ noise.modulationFreq = 0
        /\ noise.pulseDepth = 0
        /\ noise.panDepth = 0

\* Classic mode on generators that were started in Pulse mode, with neural
\* parameters loaded from a preset
C1_Witness ==
    /\ created /\ ~ui.isFlipped
    /\ noise.pulseOscFreq.value # 0
    /\ ui.neuralPulseDepth = 150 /\ ui.neuralFreq = 4 * One

\* C2: whenever the generators exist and the mode is Pulse, the beat
\* generator's volume target is 0, whatever beatVolume, the master volume and
\* the playing flag are.
C2_PulseBeatSilent ==
    (created /\ ui.isFlipped) => beat.gain.target = 0

C2_Witness ==
    /\ created /\ ui.isFlipped /\ ui.isPlaying
    /\ ui.beatVolume = 70 /\ ui.volume = 100

\* C3: the noise generator's volume target is noiseVol * master while playing
\* and 0 while paused, noiseVol being noiseVolume in Classic and
\* neuralNoiseVolume in Pulse.
C3_NoiseVolumeTarget ==
    created =>
        LET noiseVol == IF ui.isFlipped THEN ui.neuralNoiseVolume ELSE ui.noiseVolume
        IN noise.gain.target = IF ui.isPlaying THEN (noiseVol * ui.volume) \div One ELSE 0

\* paused in Pulse mode after the noise volume had been raised
C3_Witness ==
    /\ created /\ ~ui.isPlaying /\ ui.isFlipped
    /\ ui.neuralNoiseVolume = 90 /\ ui.volume = 100
    /\ noise.gain.target = 0

\* C4: in Pulse mode the noise generator's stored modulation is
\* (neuralFreq, clamp(neuralPulseDepth,0,1), clamp(neuralPanDepth,0,1)), and
\* flipping Pulse -> Classic -> Pulse with no parameter change gives back
\* exactly the modulation (stored parameters and scheduled targets) in force
\* before the first flip.
Modulation(n) ==
    <<n.modulationFreq, n.pulseDepth, n.panDepth,
      n.pulseGain.target, n.pulseDepthGain.target, n.panDepthGain.target,
      n.pulseOscFreq.target, n.panOscFreq.target>>

FlippedTo(u, flipTo) ==
    [u EXCEPT !.activePresetFront = 0, !.activePresetBack = 0, !.isFlipped = flipTo]

C4_PulseModulation ==
    (created /\ ui.isFlipped) =>
        /\ noise.modulationFreq = ui.neuralFreq
        /\ noise.pulseDepth = Clamp01(ui.neuralPulseDepth)
        /\ noise.panDepth = Clamp01(ui.neuralPanDepth)
        /\ LET classic == EffectNoise(noise, created, ui, FlippedTo(ui, FALSE))
               back == EffectNoise(classic, created, FlippedTo(ui, FALSE), FlippedTo(ui, TRUE))
           IN /\ Modulation(classic) # Modulation(noise)
              /\ Modulation(back) = Modulation(noise)

\* Pulse mode with both depths out of range, on generators started in Classic
C4_Witness ==
    /\ created /\ ui.isFlipped
    /\ ui.neuralPulseDepth = 150 /\ ui.neuralPanDepth = -20
    /\ noise.pulseOscFreq.value = 0

\* C5: in Classic mode the beat generator's volume target is
\* beatVolume * master while playing and 0 while paused, and its stored
\* frequencies are the current (baseFreq, beatFreq) of the UI whether or not
\* playback is on.
C5_ClassicBeat ==
    (created /\ ~ui.isFlipped) =>
        /\ beat.gain.target = IF ui.isPlaying THEN (ui.beatVolume * ui.volume) \div One ELSE 0
        /\ beat.baseFreq = ui.baseFreq
        /\ beat.beatFreq = ui.beatFreq

\* paused in Classic mode, the carrier moved away from the one the
\* oscillators were started with
C5_Witness ==
    /\ created /\ ~ui.isFlipped /\ ~ui.isPlaying
    /\ ui.baseFreq # beat.leftFreq.value
    /\ ui.beatVolume = 70

\* C6: a mode switch (handleFlip and the effect run it causes) never starts
\* or stops a generator: the sound-producing nodes of both generators keep
\* their identity, and nothing but volume, modulation and frequency targets
\* and stored parameters changes.
Lifecycle ==
    <<noise.node, noise.pulseOsc, noise.panOsc, noise.made,
      beat.leftOsc, beat.rightOsc, beat.made, beat.leftInput, beat.rightInput>>

Untargeted ==
    <<noise.gain.value, noise.pulseGain.value, noise.pulseDepthGain.value,
      noise.panDepthGain.value, noise.pulseOscFreq.value, noise.panOscFreq.value,
      noise.pan, noise.dests,
      beat.gain.value, beat.leftFreq.value, beat.rightFreq.value, beat.dests>>

C6_FlipKeepsNodes ==
    [][(\E flipTo \in BOOLEAN : HandleFlip(flipTo)) =>
           (Lifecycle' = Lifecycle /\ Untargeted' = Untargeted)]_vars

\* playing in Pulse mode on a noise generator that was started in Classic mode
C6_Witness ==
    /\ created /\ ui.isFlipped /\ ui.isPlaying
    /\ NoiseRunning(noise) /\ BeatRunning(beat)
    /\ noise.pulseOscFreq.value = 0
    /\ noise.modulationFreq # 0

\* C7: the policy recomputation is idempotent: run again on the state one run
\* produced, with unchanged inputs, it changes no target, no stored parameter
\* and no lifecycle state of either generator.
C7_PolicyIdempotent ==
    created =>
        /\ PolicyNoise(noise, ui) = noise
        /\ PolicyBeat(beat, ui) = beat
        /\ PolicyNoise(PolicyNoise(noise, ui), ui) = PolicyNoise(noise, ui)
        /\ PolicyBeat(PolicyBeat(beat, ui), ui) = PolicyBeat(beat, ui)

C7_Witness ==
    /\ created /\ ui.isPlaying /\ ui.isFlipped
    /\ noise.gain.target > 0
    /\ noise.pulseDepth = One

---------------------------------------------------------------------------
(* Properties of PinkNoiseGenerator (specification SpecNoise) *)

\* C8: after setModulation(freq, pulseDepth, panDepth), for every depth
\* passed, negative and above 1 included, the depth stored and handed to the
\* depth gains by updateLFOs is clamp(depth, 0, 1); the call is enabled in
\* every state (never rejected).
C8_SetModulationClamps ==
    /\ lastCall.op = "setModulation" =>
          /\ noise.pulseDepth = Clamp01(lastCall.pulseDepth)
          /\ noise.panDepth = Clamp01(lastCall.panDepth)
          /\ noise.pulseDepthGain.target = Clamp01(lastCall.pulseDepth) \div 2
          /\ noise.pulseGain.target = One - (Clamp01(lastCall.pulseDepth) \div 2)
          /\ noise.panDepthGain.target = Clamp01(lastCall.panDepth)
    /\ \A f \in FreqArgs : \A p \in DepthArgs : \A q \in PanDepthArgs :
          ENABLED CallNoiseSetModulation(f, p, q)

\* setModulation with a pulse depth above 1 and a negative pan depth, on a
\* running generator
C8_Witness ==
    /\ lastCall.op = "setModulation"
    /\ lastCall.pulseDepth = 150 /\ lastCall.panDepth = -20
    /\ NoiseRunning(noise)
    /\ noise.pulseDepth = One /\ noise.panDepth = 0

\* C9: in every reachable state of PinkNoiseGenerator the stored pulseDepth
\* and panDepth, and with them the depth-gain targets, lie in [0,1].
C9_DepthsInRange ==
    /\ noise.pulseDepth >= 0 /\ noise.pulseDepth <= One
    /\ noise.panDepth >= 0 /\ noise.panDepth <= One
    /\ noise.panDepthGain.target >= 0 /\ noise.panDepthGain.target <= One
    /\ noise.pulseDepthGain.target >= 0 /\ noise.pulseDepthGain.target <= One

---------------------------------------------------------------------------
(* Properties of BinauralBeatGenerator (specification SpecBeat) *)

\* C10: whenever the generator is Running, the left oscillator's frequency
\* target is the stored baseFreq and the right one's is baseFreq + beatFreq,
\* the left oscillator feeds merger input 0 and the right one input 1; and
\* setFrequencies stores its arguments unmodified, whatever their sign.
C10_BinauralFrequencies ==
    /\ BeatRunning(beat) =>
          /\ beat.leftFreq.target = beat.baseFreq
          /\ beat.rightFreq.target = beat.baseFreq + beat.beatFreq
          /\ beat.rightFreq.target - beat.leftFreq.target = beat.beatFreq
          /\ beat.leftInput = 0 /\ beat.rightInput = 1
    /\ lastCall.op = "setFrequencies" =>
          /\ beat.baseFreq = lastCall.baseFreq
          /\ beat.beatFreq = lastCall.beatFreq

\* a running generator retuned to a negative beat frequency, the ramp still
\* in flight
C10_Witness ==
    /\ BeatRunning(beat)
    /\ lastCall.op = "setFrequencies" /\ lastCall.beatFreq < 0
    /\ beat.rightFreq.value # beat.rightFreq.target

---------------------------------------------------------------------------
(* Lifecycle of the generators *)

NoiseAbsent(n) == n.node = 0 /\ n.pulseOsc = 0 /\ n.panOsc = 0

NoiseLive(n) ==
    /\ n.node # 0 /\ n.nodeStarted
    /\ n.pulseOsc # 0 /\ n.pulseOscStarted
    /\ n.panOsc # 0 /\ n.panOscStarted

BeatAbsent(b) == b.leftOsc = 0 /\ b.rightOsc = 0

BeatLive(b) ==
    /\ b.leftOsc # 0 /\ b.leftStarted
    /\ b.rightOsc # 0 /\ b.rightStarted

\* C11: in every reachable state the noise generator's buffer source and two
\* LFOs are all absent or all present and started, the beat generator's two
\* oscillators are both absent or both present and started, and stop() always
\* yields the all-absent state.
C11_TwoLifecycleStates ==
    /\ NoiseAbsent(noise) \/ NoiseLive(noise)
    /\ BeatAbsent(beat) \/ BeatLive(beat)
    /\ lastCall.op = "stop" =>
          IF lastCall.gen = "noise" THEN NoiseAbsent(noise) ELSE BeatAbsent(beat)

\* C14: after a start() in which a platform call threw, a subsequent start()
\* actually runs and leaves the generator fully running.
C14_StartRecovers ==
    (lastCall.op = "start" /\ lastCall.threw) =>
        IF lastCall.gen = "noise"
        THEN NoiseLive(NoiseStart(noise, Undef, Undef, Undef))
        ELSE BeatLive(BeatStart(beat, Undef, Undef))

\* C12: start(...) on a Running generator, whatever its arguments, and stop()
\* on an Uninitialized generator change nothing: no stored parameter, no
\* node, no parameter target.
C12_RedundantCallsNoOp ==
    [][ ( \/ lastCall'.op = "start" /\ lastCall'.wasRunning
          \/ lastCall'.op = "stop" /\ ~lastCall'.wasRunning )
        => (noise' = noise /\ beat' = beat) ]_vars

C12_Witness ==
    /\ lastCall.gen = "noise" /\ lastCall.op = "start" /\ lastCall.wasRunning
    /\ NoiseLive(noise)
    /\ noise.pulseDepth \notin DepthArgs

\* what a running generator plays: the targets of its parameters and the
\* destinations of its output
EffectiveNoise(n) ==
    [ volume |-> n.gain.target,
      modulationFreq |-> n.modulationFreq,
      pulseOscFreq |-> n.pulseOscFreq.target,
      panOscFreq |-> n.panOscFreq.target,
      pulseBase |-> n.pulseGain.target,
      pulseSwing |-> n.pulseDepthGain.target,
      panSwing |-> n.panDepthGain.target,
      dests |-> n.dests ]

EffectiveBeat(b) ==
    [ volume |-> b.gain.target,
      left |-> b.leftFreq.target,
      right |-> b.rightFreq.target,
      leftInput |-> b.leftInput,
      rightInput |-> b.rightInput,
      dests |-> b.dests ]

\* C13: from any Running state, stop() followed by start() with no arguments
\* yields a Running state with the same effective parameters and the same
\* connected destinations.
C13_RestartRestores ==
    /\ NoiseRunning(noise) =>
          LET restarted == NoiseStart(NoiseStop(noise), Undef, Undef, Undef)
          IN /\ NoiseLive(restarted)
             /\ EffectiveNoise(restarted) = EffectiveNoise(noise)
    /\ BeatRunning(beat) =>
          LET restarted == BeatStart(BeatStop(beat), Undef, Undef)
          IN /\ BeatLive(restarted)
             /\ EffectiveBeat(restarted) = EffectiveBeat(beat)

\* a second start after a stop, the generator audible, modulated and connected
C13_Witness ==
    /\ lastCall.gen = "noise" /\ lastCall.op = "start" /\ ~lastCall.wasRunning
    /\ noise.made = 2 /\ NoiseLive(noise)
    /\ noise.gain.target = 50 /\ noise.pulseDepth = 80
    /\ noise.dests = {"destination"}

\* the master gain of the generator the behaviour drives
DrivenGain == IF lastCall.gen = "noise" THEN noise.gain ELSE beat.gain

\* C15: after every setVolume call, in any lifecycle state and whether or not
\* a ramp is in flight, the gain's pending target is the value just passed;
\* and a pending target is eventually reached by the gain unless a further
\* call retargets it.
C15_VolumeReached ==
    /\ [](lastCall.op = "setVolume" => DrivenGain.target = lastCall.volume)
    /\ \A v \in VolumeArgs :
          (DrivenGain.target = v) ~> (DrivenGain.value = v \/ DrivenGain.target # v)

\* a second setVolume issued while the ramp of the first is still in flight
C15_Witness ==
    /\ lastCall.op = "setVolume" /\ lastCall.volume = 0
    /\ DrivenGain.target = 0 /\ DrivenGain.value = 50

\* C16: setVolume(v) changes only the master-gain target of the generator it
\* is called on: lifecycle, stored parameters, every other parameter, the
\* destinations and the other generator are unchanged.
C16_SetVolumeFrame ==
    [][ lastCall'.op = "setVolume" =>
          IF lastCall'.gen = "noise"
          THEN /\ noise' = [noise EXCEPT !.gain.target = lastCall'.volume]
               /\ beat' = beat
          ELSE /\ beat' = [beat EXCEPT !.gain.target = lastCall'.volume]
               /\ noise' = noise ]_vars

\* setVolume on a running beat generator whose oscillators are being retuned,
\* the noise generator running beside it
C16_Witness ==
    /\ lastCall.gen = "beat" /\ lastCall.op = "setVolume" /\ lastCall.volume = 50
    /\ BeatLive(beat) /\ beat.leftFreq.value # beat.leftFreq.target
    /\ beat.gain.value = 0
    /\ NoiseLive(noise)

\* C17: after setModulation(f, p, q), with d = clamp(p, 0, 1), twice the pulse
\* swing target is d, base + swing = 1 and base - swing = 1 - d >= 0, and the
\* pan swing target is clamp(q, 0, 1); in any state setModulation(4, 0.8, 0.5)
\* gives base 0.6, swing 0.4 and pan swing 0.5.
C17_PulseDepthMapping ==
    /\ lastCall.op = "setModulation" =>
          LET d == Clamp01(lastCall.pulseDepth)
              base == noise.pulseGain.target
              swing == noise.pulseDepthGain.target
          IN /\ 2 * swing = d
             /\ base + swing = One
             /\ base - swing = One - d
             /\ base - swing >= 0
             /\ noise.panDepthGain.target = Clamp01(lastCall.panDepth)
    /\ LET example == NoiseSetModulation(noise, 4 * One, 80, 50)
       IN /\ example.pulseGain.target = 60
          /\ example.pulseDepthGain.target = 40
          /\ example.panDepthGain.target = 50

\* setModulation(f, 0.8, q) on a running generator
C17_Witness ==
    /\ lastCall.op = "setModulation" /\ lastCall.pulseDepth = 80
    /\ NoiseLive(noise)
    /\ noise.pulseGain.target = 60 /\ noise.pulseDepthGain.target = 40

\* C18: right after construction the master gain is 0 and no sound-producing
\* node exists; start() never changes the master gain; the gain, once at 0
\* with target 0, stays there on every step that is not a setVolume call with
\* a non-zero value.
C18_SilentUntilVolume ==
    /\ [](lastCall.op = "construct" =>
            /\ DrivenGain = Param(0)
            /\ IF lastCall.gen = "noise" THEN NoiseAbsent(noise) ELSE BeatAbsent(beat))
    /\ [][ lastCall'.op = "start" =>
             (noise'.gain = noise.gain /\ beat'.gain = beat.gain) ]_vars
    /\ [][ ( /\ DrivenGain = Param(0)
             /\ ~(lastCall'.op = "setVolume" /\ lastCall'.volume # 0) )
           => DrivenGain' = Param(0) ]_vars

\* a generator restarted, modulated and still silent
C18_Witness ==
    /\ lastCall.gen = "noise" /\ lastCall.op = "start" /\ ~lastCall.wasRunning
    /\ noise.made = 2 /\ NoiseLive(noise) /\ noise.pulseDepth = 150
    /\ noise.gain = Param(0)

Setters == {"setVolume", "setModulation", "setFrequencies"}

\* the identities of a generator's sound-producing nodes
NoiseNodes(n) == <<n.node, n.pulseOsc, n.panOsc, n.made>>
BeatNodes(b) == <<b.leftOsc, b.rightOsc, b.made>>

\* C19: a setter creates and releases no node in either lifecycle state;
\* called while Uninitialized it stores its parameters and leaves the
\* generator Uninitialized, and a start() with no arguments then starts the
\* oscillators at the stored values.
C19_SettersBeforeStart ==
    /\ [][ lastCall'.op \in Setters =>
             (NoiseNodes(noise') = NoiseNodes(noise) /\ BeatNodes(beat') = BeatNodes(beat)) ]_vars
    /\ []( (lastCall.op = "setModulation" /\ NoiseAbsent(noise)) =>
             /\ noise.pulseDepth = Clamp01(lastCall.pulseDepth)
             /\ noise.panDepth = Clamp01(lastCall.panDepth)
             /\ LET started == NoiseStart(noise, Undef, Undef, Undef)
                IN /\ NoiseLive(started)
                   /\ started.pulseOscFreq = Param(noise.modulationFreq)
                   /\ started.panOscFreq = Param(noise.modulationFreq)
                   /\ started.pulseDepthGain.target = noise.pulseDepth \div 2
                   /\ started.panDepthGain.target = noise.panDepth )
    /\ []( (lastCall.op = "setFrequencies" /\ BeatAbsent(beat)) =>
             /\ beat.baseFreq = lastCall.baseFreq
             /\ beat.beatFreq = lastCall.beatFreq
             /\ LET started == BeatStart(beat, Undef, Undef)
                IN /\ BeatLive(started)
                   /\ started.leftFreq = Param(lastCall.baseFreq)
                   /\ started.rightFreq = Param(lastCall.baseFreq + lastCall.beatFreq) )
    /\ []( (lastCall.op = "setVolume" /\ lastCall.gen = "noise" /\ NoiseAbsent(noise)) =>
             /\ noise.gain.target = lastCall.volume
             /\ NoiseStart(noise, Undef, Undef, Undef).gain = noise.gain )
    /\ []( (lastCall.op = "setVolume" /\ lastCall.gen = "beat" /\ BeatAbsent(beat)) =>
             /\ beat.gain.target = lastCall.volume
             /\ BeatStart(beat, Undef, Undef).gain = beat.gain )

\* setFrequencies on a beat generator that has never been started
C19_Witness ==
    /\ lastCall.op = "setFrequencies" /\ lastCall.baseFreq = 20000
    /\ lastCall.beatFreq = -300
    /\ BeatAbsent(beat) /\ beat.made = 0

\* C20: in the state right after a start() that created nodes, every
\* oscillator's frequency value already equals its intended frequency (both
\* LFOs modulationFreq, left baseFreq, right baseFreq + beatFreq) and no ramp
\* from the platform default is pending.
C20_NoGlideFromDefault ==
    (lastCall.op = "start" /\ ~lastCall.wasRunning) =>
        IF lastCall.gen = "noise"
        THEN /\ NoiseLive(noise)
             /\ noise.pulseOscFreq = Param(noise.modulationFreq)
             /\ noise.panOscFreq = Param(noise.modulationFreq)
        ELSE /\ BeatLive(beat)
             /\ beat.leftFreq = Param(beat.baseFreq)
             /\ beat.rightFreq = Param(beat.baseFreq + beat.beatFreq)

\* start(60, -3): the right oscillator is at 57 Hz at once
C20_Witness ==
    /\ lastCall.gen = "beat" /\ lastCall.op = "start" /\ ~lastCall.wasRunning
    /\ BeatLive(beat)
    /\ beat.leftFreq.value = 6000 /\ beat.rightFreq.value = 5700
    /\ beat.rightFreq.value # DefaultOscFreq

\* C21: connect(destination) adds the destination to the endpoints fed by the
\* master gain and removes none; start(), stop() and the setters leave the
\* endpoints unchanged, so an endpoint once connected stays connected across
\* stop/start cycles.
C21_ConnectFansOut ==
    [][ /\ lastCall'.op = "connect" =>
             IF lastCall'.gen = "noise"
             THEN noise'.dests = noise.dests \cup {lastCall'.destination}
                  /\ beat' = beat
             ELSE beat'.dests = beat.dests \cup {lastCall'.destination}
                  /\ noise' = noise
        /\ lastCall'.op # "connect" =>
             (noise'.dests = noise.dests /\ beat'.dests = beat.dests)
        /\ noise.dests \subseteq noise'.dests
        /\ beat.dests \subseteq beat'.dests ]_vars

\* primary output and bridge both connected after a second start
C21_Witness ==
    /\ lastCall.gen = "noise" /\ lastCall.op = "start" /\ ~lastCall.wasRunning
    /\ noise.made = 2 /\ NoiseLive(noise)
    /\ noise.dests = Endpoints

BandLabels ==
    {"Delta (Deep Sleep)", "Theta (Meditation/Drowsiness)", "Alpha (Relaxation)",
     "Beta (Active Thinking)", "Gamma (High Focus)"}

\* C23: the label is Delta exactly for f < 4, Theta for 4 <= f < 8, Alpha for
\* 8 <= f < 13, Beta for 13 <= f < 30 and Gamma for f >= 30; each boundary
\* belongs to the upper band and every frequency has exactly one label.
C23_BrainWaveBands ==
    host.label # "" =>
        LET f == host.freq
            l == host.label
        IN /\ l \in BandLabels
           /\ (l = "Delta (Deep Sleep)") <=> (f < 4 * One)
           /\ (l = "Theta (Meditation/Drowsiness)") <=> (4 * One <= f /\ f < 8 * One)
           /\ (l = "Alpha (Relaxation)") <=> (8 * One <= f /\ f < 13 * One)
           /\ (l = "Beta (Active Thinking)") <=> (13 * One <= f /\ f < 30 * One)
           /\ (l = "Gamma (High Focus)") <=> (f >= 30 * One)

\* the boundary 13 Hz rendered as Beta
C23_Witness ==
    /\ host.module = "BrainWaveDisplay"
    /\ host.freq = 13 * One /\ host.label = "Beta (Active Thinking)"

\* the four parameters that belong to one mode only
ClassicOwn(u) == <<u.noiseVolume, u.beatVolume, u.baseFreq, u.beatFreq>>
PulseOwn(u) == <<u.neuralFreq, u.neuralPulseDepth, u.neuralPanDepth, u.neuralNoiseVolume>>

ExpectedSample(i) ==
    [ scale |-> 11,
      terms |-> {[gain |-> Gain[k], decay |-> IF j = i THEN 0 ELSE Decay[k],
                  power |-> i - j, sample |-> j] : k \in 1..6, j \in 1..i}
                \cup (IF i > 1 THEN {Term(DelayGain, i - 1)} ELSE {})
                \cup {Term(DirectGain, i)} ]

\* C27: every sample written so far is the recurrence's value: b0..b5 already
\* hold the current white sample, b6 holds 0.115926 times the previous one (0
\* for the first), the sum is scaled by 0.11; the finished buffer has
\* 2 * sampleRate samples in one channel and is looped.
C27_PinkNoiseRecurrence ==
    /\ \A i \in 1..Len(host.output) : host.output[i] = ExpectedSample(i)
    /\ Len(host.output) = host.i /\ Len(host.white) = host.i
    /\ host.b6 = IF host.i = 0 THEN {} ELSE {Term(DelayGain, host.i)}
    /\ host.source =>
          /\ Len(host.output) = 2 * host.rate
          /\ host.channels = 1
          /\ host.loop

\* the buffer filled and handed to a looping source
C27_Witness ==
    /\ host.module = "PinkNoiseGenerator.start"
    /\ host.source /\ host.i = 2 * SampleRate
    /\ host.white[1] = 50 /\ host.white[2] = -100

\* C28: in every reachable state of the noise generator, from construction
\* onward, the pan LFO swing gain is set to the stored panDepth and the pulse
\* LFO swing gain to the stored pulseDepth / 2; a freshly constructed
\* generator, whose stored depths are 0, has both depth gains at 0.
C28_DepthGainsFollowStored ==
    /\ noise.panDepthGain.target = noise.panDepth
    /\ noise.pulseDepthGain.target = noise.pulseDepth \div 2
    /\ lastCall.op = "construct" =>
          (noise.panDepthGain = Param(0) /\ noise.pulseDepthGain = Param(0))

\* C30: from a stopIOSAudioUnlock() to the next unlockIOSAudio() call
\* isUnlocked is false, whenever the play() promise of an earlier
\* unlockIOSAudio() is settled.
C30_StoppedMeansLocked ==
    host.stopped => ~host.isUnlocked

\* C25: once startBridge has succeeded and until destroyBridge, no
\* function of the bridge module pauses the audio element, and every pause
\* event on the element is answered by a play() call on it.
C25_NeverPauseBridge ==
    /\ [][(host.succeeded /\ BridgeFunctions) =>
             (host.paused \/ ~host'.paused)]_vars
    /\ [][(host.succeeded /\ \E allowed \in BOOLEAN : BridgePauseEvent(allowed)) =>
             host'.answered = "play"]_vars

\* C26: the keep-alive timer is active exactly while the playing flag is
\* true: it is created, with one immediate keepIOSAudioAlive call, by the
\* effect run that follows the start of playback, at most one such timer
\* exists at any time, and once the effects of a stop have run no tick fires.
C26_KeepAliveWhilePlaying ==
    /\ [](Cardinality(host.timers) <= 1)
    /\ []((host.mounted /\ ~host.effectsPending) =>
             (host.timers # {} <=> ui.isPlaying))
    /\ [](~host.mounted => host.timers = {})
    /\ [][(host.timers = {} /\ host'.timers # {}) =>
             (FlushEffects /\ ui.isPlaying /\ host'.keepAlive = "immediate")]_vars
    /\ [][KeepAliveTick => (ui.isPlaying \/ host.effectsPending)]_vars

\* a second start of playback has replaced the timer of the first
C26_Witness ==
    /\ host.timers = {2}
    /\ host.keepAlive = "tick"
    /\ ui.isPlaying /\ ~host.effectsPending

\* C29: a media-session 'play' action never changes the playing flag from
\* true to false, and a 'pause' or 'stop' action never changes it from false
\* to true, whatever was queued and whatever the refs held when it ran.
C29_MediaActionsOneWay ==
    \A c \in host.changes :
        /\ c.origin = "play" => ~(c.from /\ ~c.to)
        /\ c.origin \in {"pause", "stop"} => ~(~c.from /\ c.to)

\* a 'play' action ran on stale refs: its update found the flag already true
C29_Witness ==
    /\ [origin |-> "button", from |-> FALSE, to |-> TRUE] \in host.changes
    /\ [origin |-> "play", from |-> TRUE, to |-> TRUE] \in host.changes

\* C22: in the first togglePlay every call that begins producing samples
\* (silent element play(), noise source start(), LFO and tone oscillator
\* start()) is made before control has gone back to the event loop since the
\* gesture, and AudioContext.resume() is issued without being awaited.
C22_StartsInsideGesture ==
    \A c \in host.issued :
        /\ c.op \in Producing => ~c.yielded
        /\ c.op = "ctx.resume" => ~c.awaited /\ ~c.yielded

\* the handler has returned with every producing call and resume() made,
\* while the continuation of the silent element's play() waits in the queue
C22_Witness ==
    /\ host.pc = Len(TogglePlayCalls) + 2
    /\ Producing \cup {"ctx.resume"} \subseteq {c.op : c \in host.issued}
    /\ "unlockIOSAudio.then" \in host.tasks

\* C31: on iOS every togglePlay that takes the app from stopped to playing
\* calls play() on the silent audio element within that handler call, in the
\* first playback session and in every later one.
C31_EveryStartPlays ==
    [][(host.ios /\ ~ui.isPlaying /\ \E allowed \in BOOLEAN : TogglePlayUnlocks(allowed))
          => lastCall'.played]_vars

\* C32: while isStarted is true, also while the first play() promise is
\* pending, a further startBridge call does not call play(); when that play()
\* rejects, the catch block resets isStarted and the next startBridge call
\* plays the element again; with no bridge startBridge does nothing.
C32_StartBridgeOnce ==
    /\ [][\A allowed \in BOOLEAN :
            (StartBridge(allowed) /\ (host.isStarted \/ ~host.bridge))
               => host' = host]_vars
    /\ [][(StartBridgeCatches /\ host.bridge) => ~host'.isStarted]_vars
    /\ [][(StartBridge(TRUE) /\ host.bridge /\ ~host.isStarted)
             => (host'.isStarted /\ host'.startPending /\ ~host'.paused)]_vars

\* the play() of a startBridge call is pending and no rejection is waiting:
\* a further call finds isStarted true
C32_Witness ==
    /\ host.module = "mediaStreamBridge"
    /\ host.bridge /\ host.isStarted /\ host.startPending
    /\ host.rejections = 0 /\ host.answered = "play"

C34_MediaSessionInSync ==
    /\ []((created /\ host.events = <<>>) =>
             /\ host.playbackState = IF ui.isPlaying THEN "playing" ELSE "paused"
             /\ host.bridge => host.isPlaying = ui.isPlaying)
    /\ [][(host.events # <<>> /\ Head(host.events) = "pause" /\ host.isPlaying
             /\ \E allowed \in BOOLEAN : ElementTask(allowed))
            => (host'.answered = "play" /\ host'.playbackState # "paused")]_vars

C36_StartedOnceNeverStopped ==
    /\ [](~created => (noise = NoiseConstruct /\ beat = BeatConstruct))
    /\ [](created => /\ NoiseLive(noise) /\ noise.made = 1
                     /\ BeatLive(beat) /\ beat.made = 1)
    /\ [][created => /\ created'
                     /\ noise'.node = noise.node /\ noise'.made = noise.made
                     /\ beat'.leftOsc = beat.leftOsc /\ beat'.rightOsc = beat.rightOsc
                     /\ beat'.made = beat.made]_vars

\* the stored content of (side, slot) is absent, is not valid JSON, or lacks
\* one of the five fields of its side as a number
Unusable(store, side, slot) ==
    LET stored == store[<<side, slot>>]
    IN \/ stored = NoItem
       \/ stored \in {EmptyItem, TextItem}
       \/ \E f \in PresetFields(side) :
             f \notin DOMAIN stored \/ TypeOf(stored, f) # "number"

\* C37: when the stored content of a slot is absent, not valid JSON or lacks
\* one of its side's five fields as a number, loadPreset returns null and a
\* press of the load button changes no parameter, no marker and nothing in
\* the generators, also when hasPreset is true for the slot.
C37_UnusablePresetIgnored ==
    /\ [](\A side \in Sides : \A slot \in Slots :
             Unusable(storage, side, slot) => LoadPreset(storage, side, slot) = NoItem)
    /\ [][\A side \in Sides : \A slot \in Slots :
             (PressLoadPreset(side, slot) /\ Unusable(storage, side, slot))
                => (ui' = ui /\ noise' = noise /\ beat' = beat /\ storage' = storage)]_vars

\* the load button of a slot with unusable content, for which hasPreset is
\* true, was pressed while the parameters differ from the mount's presets
C37_Witness ==
    /\ lastCall.op = "handleLoadPreset" /\ lastCall.hasPreset
    /\ Unusable(storage, lastCall.side, lastCall.slot)
    /\ ui.volume = 30 /\ ui.activePresetFront = 1

\* activePresetFront / activePresetBack (0: null)
Marker(u, side) == IF side = "front" THEN u.activePresetFront ELSE u.activePresetBack

\* C38: a side's active-preset marker names a slot only while a preset is
\* stored in that slot of that side; a marker comes to name a slot only by a
\* successful save or a load of that slot, a successful delete of the marked
\* slot clears the marker, and every flip resets both markers.
C38_MarkerHasPreset ==
    /\ [](\A side \in Sides :
             Marker(ui, side) # 0 =>
                /\ HasPreset(storage, side, Marker(ui, side))
                /\ LoadPreset(storage, side, Marker(ui, side)) # NoItem)
    /\ [][\A side \in Sides :
             (Marker(ui', side) # 0 /\ Marker(ui', side) # Marker(ui, side)) =>
                \/ HandleSavePreset(side, Marker(ui', side), TRUE)
                \/ HandleLoadPreset(side, Marker(ui', side))]_vars
    /\ [][\A side \in Sides : \A slot \in Slots :
             (HandleDeletePreset(side, slot, TRUE) /\ Marker(ui, side) = slot)
                => Marker(ui', side) = 0]_vars
    /\ [][(\E flipTo \in BOOLEAN : HandleFlip(flipTo))
             => (Marker(ui', "front") = 0 /\ Marker(ui', "back") = 0)]_vars

\* in Pulse mode the marker is on slot 2, which holds the preset saved from
\* the current parameters; no Classic marker is set and both Classic keys
\* pressed are absent, the mount's preset having been deleted
C38_Witness ==
    /\ ui.isFlipped /\ Marker(ui, "back") = 2 /\ Marker(ui, "front") = 0
    /\ LoadPreset(storage, "back", 2) = PresetOf(ui, "back")
    /\ ~HasPreset(storage, "front", 1) /\ ~HasPreset(storage, "front", 2)

\* C39: isWakeLockActive() is true exactly when a granted sentinel is held
\* and not released, every held sentinel is the recorded one, and the
\* 'release' event of a sentinel other than the recorded one leaves the
\* record alone.
C39_RecordMatchesHeld ==
    /\ [](IsWakeLockActive(host) <=> HeldSentinels(host) # {})
    /\ [](HeldSentinels(host) \subseteq {host.wakeLock})
    /\ [][\A k \in 1..MaxSentinels :
             (ReleaseEvent(k) /\ host.wakeLock # 0 /\ host.wakeLock # k)
                => host'.wakeLock = host.wakeLock]_vars

============================================================================
